---- MODULE Spec2Model ----
(***************************************************************************)
(* Telemetry aggregation layer of the OpenClaw agent dashboard: the route  *)
(* handlers that shell out to the `openclaw` command line tool, memoise    *)
(* what they derive for a few seconds, and derive the status, health and   *)
(* activity views from the snapshots the tool prints.                      *)
(*                                                                         *)
(* Conventions.  A JavaScript string is a TLA+ string, read with Len,      *)
(* SubSeq, Head, Tail and \o.  An optional JSON field has a value of its   *)
(* own kind that stands for "absent" (NoStr, NoNum, "absent").  A          *)
(* JavaScript number that may be NaN is a pair <<"num", n>> or             *)
(* <<"nan", 0>>.                                                           *)
(***************************************************************************)
EXTENDS Integers, Sequences, FiniteSets, TLC

VARIABLES
    now,             \* Date.now(), in milliseconds
    cache,           \* api/status: the module-level `cache`
    cachedActivity,  \* api/activity: the module-level `cachedActivity`
    cacheTimestamp,  \* api/activity: the module-level `cacheTimestamp`
    req,             \* the request handled last: what it met and what it read
    resp,            \* the response to that request
    input,           \* the arguments of the derivation under study
    output,          \* what the derivation returned for `input`
    tasks,           \* the requests the process has accepted, in order
    spawned          \* the starts and ends of the commands run, in order

vars == <<now, cache, cachedActivity, cacheTimestamp, req, resp, input, output,
          tasks, spawned>>

(***************************************************************************)
(* Bounds of the model.                                                    *)
(***************************************************************************)
\* Channels a health snapshot may list.
NumChannels == 2
\* Lines of a status snapshot's channelSummary.
MaxSummaryLines == 2
\* Source records (sessions, cron jobs, lines of the note) one refresh of
\* the activity feed reads.
MaxRecords == 3
\* Source records are dated 1..MaxTime; the clock starts at MaxTime.
MaxTime == 2
\* Arrays and objects nested around a leaf of a JSON value.
MaxDepth == 2

(***************************************************************************)
(* Constants of the program.                                               *)
(***************************************************************************)
\* api/status: CACHE_TTL
STATUS_CACHE_TTL == 30000
\* api/activity: CACHE_TTL
ACTIVITY_CACHE_TTL == 3000
\* api/activity: headings of today's memory note that become entries.
MEMORY_HEADINGS == 5

(***************************************************************************)
(* JavaScript values.                                                      *)
(***************************************************************************)
\* An absent (undefined) string-valued field.
NoStr == "<undefined>"
\* An absent number-valued field.
NoNum == <<"absent", 0>>
Num(n) == <<"num", n>>
\* A value that is no number and that `new Date(v)` cannot read either.
BadText == <<"text", 0>>
NaN == <<"nan", 0>>

\* Truthiness of an optional boolean-like field.
Truthy(v) == v \in {"true", "truthy"}

\* new Date(ms).toISOString(): the ISO-8601 text of an instant.
toISOString(ms) == <<"iso", ms>>

\* new Date(text).getTime(): the instant a timestamp text denotes, NaN for a
\* text that is no date.
getTime(ts) == IF ts[1] = "iso" THEN Num(ts[2]) ELSE NaN

(***************************************************************************)
(* Strings.                                                                *)
(***************************************************************************)
LowerCase == "abcdefghijklmnopqrstuvwxyz"
UpperCase == "ABCDEFGHIJKLMNOPQRSTUVWXYZ"
Digits == "0123456789"

\* s.charAt(i - 1)
At(s, i) == SubSeq(s, i, i)

\* Whether the character c occurs in s.
OneOf(c, s) == \E i \in 1..Len(s) : At(s, i) = c

\* \w of a regular expression.
IsWord(c) == OneOf(c, LowerCase) \/ OneOf(c, UpperCase) \/ OneOf(c, Digits) \/ c = "_"
\* \s of a regular expression, and what trim() removes.
IsSpace(c) == OneOf(c, " \t\n\r")

toLowerChar(c) ==
    IF OneOf(c, UpperCase)
    THEN At(LowerCase, CHOOSE i \in 1..Len(UpperCase) : At(UpperCase, i) = c)
    ELSE c

\* String.prototype.toLowerCase
RECURSIVE toLowerCase(_)
toLowerCase(s) ==
    IF s = "" THEN "" ELSE toLowerChar(Head(s)) \o toLowerCase(Tail(s))

\* String.prototype.trim
trim(s) ==
    IF \A i \in 1..Len(s) : IsSpace(At(s, i))
    THEN ""
    ELSE LET first == CHOOSE i \in 1..Len(s) :
                          /\ ~IsSpace(At(s, i))
                          /\ \A j \in 1..(i - 1) : IsSpace(At(s, j))
             last  == CHOOSE i \in 1..Len(s) :
                          /\ ~IsSpace(At(s, i))
                          /\ \A j \in (i + 1)..Len(s) : IsSpace(At(s, j))
         IN  SubSeq(s, first, last)

\* String.prototype.startsWith
startsWith(s, prefix) ==
    Len(prefix) <= Len(s) /\ SubSeq(s, 1, Len(prefix)) = prefix

\* String.prototype.includes
includes(s, sub) ==
    \E i \in 1..(Len(s) - Len(sub) + 1) : SubSeq(s, i, i + Len(sub) - 1) = sub

\* s.split(sep)[0]: the text before the first occurrence of sep, all of s
\* when sep does not occur (sep is not empty).
splitFirst(s, sep) ==
    IF includes(s, sep)
    THEN LET i == CHOOSE k \in 1..(Len(s) - Len(sep) + 1) :
                      /\ SubSeq(s, k, k + Len(sep) - 1) = sep
                      /\ \A j \in 1..(k - 1) : SubSeq(s, j, j + Len(sep) - 1) # sep
         IN  SubSeq(s, 1, i - 1)
    ELSE s

\* s.split(sep)[1]: the text between the first and the second occurrence of
\* sep, NoStr (undefined) when sep does not occur.
splitSecond(s, sep) ==
    IF includes(s, sep)
    THEN LET rest == SubSeq(s, Len(splitFirst(s, sep)) + Len(sep) + 1, Len(s))
         IN  splitFirst(rest, sep)
    ELSE NoStr

(***************************************************************************)
(* Snapshots printed by the command line tool.                             *)
(***************************************************************************)
\* `openclaw status --json` with every section absent (the object {}).  The
\* sections are flattened: an absent section is one whose fields are absent,
\* which is how the code reads it (section ?? {}).
EmptyStatus ==
    [ isNull          |-> FALSE,
      reachable       |-> "absent",   \* gateway.reachable
      selfVersion     |-> "absent",   \* gateway.self.version
      latestVersion   |-> "absent",   \* update.registry.latestVersion
      osLabel         |-> "absent",   \* os.label
      memFiles        |-> NoNum,      \* memory.files
      memChunks       |-> NoNum,      \* memory.chunks
      memBackend      |-> "absent",   \* memory.backend
      runtimeShort    |-> "absent",   \* gatewayService.runtimeShort: "absent",
                                      \* "string" or "number" (its JSON type)
      recentUpdatedAt |-> NoNum,      \* sessions.recent[0].updatedAt
      heartbeat       |-> "absent",   \* heartbeat.agents: "absent", "array" or
                                      \* "object" (its JSON type)
      mainEvery       |-> "absent",   \* `every` of the agent "main" in it
      channelSummary  |-> <<>> ]      \* channelSummary, absent read as []

\* What the bridge returns when the command fails: null.
NullStatus == [EmptyStatus EXCEPT !.isNull = TRUE]

\* statusData?.section ?? {} for every section at once.
Sections(statusData) == IF statusData.isNull THEN EmptyStatus ELSE statusData

\* The placeholder the code shows for an absent text: an em dash.
Placeholder == "-"

\* a ?? b without its right-hand side: an absent field stays absent.
OrElse_keepAbsent(a, b) == a

\* a ?? b for a field whose absent value is "absent".
OrElse(a, b) == IF a = "absent" THEN b ELSE a
\* a ?? n for a number-valued field.
NumOrElse(a, n) == IF a = NoNum THEN n ELSE a[2]

\* Channel ids of a health snapshot, in the order of the JSON object's keys.
ChannelNames == <<"telegram", "discord", "imessage", "slack", "signal">>

\* One channel of `openclaw health --json`: configured and probe.ok, each
\* "true", "false" or "absent"; probe.ok may also be a truthy non-boolean.
ChannelChoices ==
    {[listed |-> FALSE, configured |-> "absent", ok |-> "absent"]}
    \cup [listed : {TRUE}, configured : {"true", "false", "absent"},
          ok : {"true", "false", "absent", "truthy"}]

RECURSIVE ListedChannels(_, _)
ListedChannels(f, i) ==
    IF i > NumChannels
    THEN <<>>
    ELSE (IF f[i].listed
          THEN <<[name |-> ChannelNames[i], configured |-> f[i].configured,
                  ok |-> f[i].ok]>>
          ELSE <<>>) \o ListedChannels(f, i + 1)

NullHealth == [isNull |-> TRUE, channels |-> <<>>]

\* Every health snapshot over the first NumChannels channel ids.
HealthSnapshots ==
    {NullHealth} \cup
    {[isNull |-> FALSE, channels |-> ListedChannels(f, 1)] :
        f \in [1..NumChannels -> ChannelChoices]}

(***************************************************************************)
(* api/status: health from the channel probes.                             *)
(***************************************************************************)
parseHealth(healthData) ==
    IF healthData.isNull
    THEN [allProbesOk |-> FALSE, anyProbeOk |-> FALSE, channels |-> <<>>]
    ELSE LET channels == healthData.channels
             probeResults == [i \in DOMAIN channels |-> channels[i].ok = "true"]
             configuredAndProbeOk ==
                 SelectSeq(channels,
                           LAMBDA c : Truthy(c.configured) /\ Truthy(c.ok))
         IN  [ allProbesOk |-> /\ Len(probeResults) > 0
                               /\ \A i \in DOMAIN probeResults : probeResults[i],
               anyProbeOk  |-> \E i \in DOMAIN probeResults : probeResults[i],
               channels    |-> [i \in DOMAIN configuredAndProbeOk |->
                                   configuredAndProbeOk[i].name] ]

deriveHealth(health) ==
    IF health.allProbesOk THEN "healthy"
    ELSE IF health.anyProbeOk THEN "degraded"
    ELSE "unhealthy"

\* Whether buildStatus raises: runtimeShort.match is no function unless
\* runtimeShort is a string, toISOString raises RangeError on an invalid
\* date, and heartbeat.agents.find is no function unless agents is an array.
buildStatusThrows(statusData) ==
    LET s == Sections(statusData)
    IN  \/ s.runtimeShort = "number"
        \/ s.recentUpdatedAt = BadText
        \/ s.heartbeat = "object"

\* The fields of the status that both variants of buildStatus derive alike.
\* The host's metrics (uptime, memoryUsageMb, cpuPercent) come from the os
\* module, not from a snapshot, and are left out.
CommonStatus(s, t) ==
    [ lastHeartbeat  |-> IF s.recentUpdatedAt # NoNum /\ s.recentUpdatedAt[2] # 0
                         THEN toISOString(s.recentUpdatedAt[2])
                         ELSE toISOString(t),
      memoryFiles    |-> NumOrElse(s.memFiles, 0),
      memoryChunks   |-> NumOrElse(s.memChunks, 0),
      memoryBackend  |-> OrElse(s.memBackend, "builtin"),
      platform       |-> OrElse(s.osLabel, "linux"),
      heartbeatEvery |-> IF s.heartbeat = "array" THEN OrElse(s.mainEvery, Placeholder)
                         ELSE Placeholder,
      gatewayVersion |-> OrElse(s.selfVersion, Placeholder),
      gatewayReachable |-> Truthy(OrElse(s.reachable, "false")) ]

\* Record union: the fields of r and those of q.
Merge(r, q) ==
    [k \in DOMAIN r \cup DOMAIN q |-> IF k \in DOMAIN r THEN r[k] ELSE q[k]]

\* buildStatus of api/status, called at time t.
buildStatus(statusData, healthData, t) ==
    LET health == parseHealth(healthData)
        s == Sections(statusData)
    IN  Merge([ version        |-> OrElse(s.latestVersion,
                                          OrElse(s.selfVersion, Placeholder)),
                health         |-> deriveHealth(health),
                activeChannels |-> health.channels ],
              CommonStatus(s, t))

(***************************************************************************)
(* The later variant of the status route: health from channelSummary.      *)
(***************************************************************************)
\* Lines the tool prints in channelSummary: a configured channel, an account
\* line under it, a channel that is not configured, an indented configured
\* channel, and a line without the blank the pattern asks for.
SummaryLinePool ==
    { "Telegram: configured",
      "  - default (token:config)",
      "Discord: not configured",
      "  iMessage:   configured",
      "Slack:configured" }

\* Sequences over S of length at most n.
RECURSIVE SeqsUpTo(_, _)
SeqsUpTo(S, n) ==
    IF n = 0
    THEN {<<>>}
    ELSE LET shorter == SeqsUpTo(S, n - 1)
         IN  shorter \cup {Append(q, x) : q \in shorter, x \in S}

\* /^\w[\w\s]*?:\s+configured/.test(t)
ConfiguredLine(t) ==
    /\ Len(t) >= 1
    /\ IsWord(At(t, 1))
    /\ \E i \in 2..Len(t) :
          /\ At(t, i) = ":"
          /\ \A j \in 2..(i - 1) : IsWord(At(t, j)) \/ IsSpace(At(t, j))
          /\ \E k \in (i + 1)..Len(t) :
                /\ \A j \in (i + 1)..k : IsSpace(At(t, j))
                /\ startsWith(SubSeq(t, k + 1, Len(t)), "configured")

parseChannelSummary(channelSummary) ==
    LET kept == SelectSeq(channelSummary, LAMBDA line : ConfiguredLine(trim(line)))
    IN  [i \in DOMAIN kept |-> toLowerCase(trim(splitFirst(kept[i], ":")))]

\* The rule without its last branch: reachability alone decides.
summaryHealth_reachableOnly(gatewayReachable, activeChannels) ==
    IF ~gatewayReachable THEN "unhealthy" ELSE "healthy"

\* The health rule of the later buildStatus.
summaryHealth(gatewayReachable, activeChannels) ==
    IF ~gatewayReachable THEN "unhealthy"
    ELSE IF Len(activeChannels) > 0 THEN "healthy"
    ELSE "degraded"

\* buildStatus of the later variant, called at time t.
buildStatusFromSummary(statusData, t) ==
    LET s == Sections(statusData)
        gatewayReachable == Truthy(OrElse(s.reachable, "false"))
        activeChannels == parseChannelSummary(s.channelSummary)
    IN  Merge([ version        |-> OrElse(s.selfVersion,
                                          OrElse(s.latestVersion, Placeholder)),
                health         |-> summaryHealth(gatewayReachable, activeChannels),
                activeChannels |-> activeChannels ],
              CommonStatus(s, t))

(***************************************************************************)
(* api/activity: the feed built from sessions, cron jobs and memory notes. *)
(***************************************************************************)
\* a || b for numbers: undefined, NaN and 0 are falsy.
NumOr(a, b) == IF a[1] = "num" /\ a[2] # 0 THEN a[2] ELSE b

\* a || b for strings: undefined and "" are falsy.
StrOr(a, b) == IF a = NoStr \/ a = "" THEN b ELSE a

\* Lines 49-81: the type, channel and summary of a session, from its key.
classify(key) ==
    IF includes(key, "cron")
    THEN [type |-> "cron", channel |-> "cron",
          summary |-> "Cron job " \o
              (LET part == splitSecond(key, "cron:")
               IN  IF part = NoStr THEN "unknown"
                   ELSE StrOr(SubSeq(part, 1, IF Len(part) < 8 THEN Len(part) ELSE 8),
                              "unknown"))]
    ELSE IF includes(key, "spawn")
    THEN [type |-> "task", channel |-> "terminal",
          summary |-> "Sub-agent: " \o StrOr(splitSecond(key, "spawn:"), "subagent")]
    ELSE IF includes(key, "telegram")
    THEN [type |-> "message", channel |-> "telegram",
          summary |-> "Telegram conversation"]
    ELSE IF includes(key, "discord")
    THEN [type |-> "message", channel |-> "discord",
          summary |-> "Discord conversation"]
    ELSE IF includes(key, "imessage")
    THEN [type |-> "message", channel |-> "imessage",
          summary |-> "iMessage conversation"]
    ELSE IF key = "agent:main:main"
    THEN [type |-> "message", channel |-> "telegram",
          summary |-> "Main session (Telegram)"]
    ELSE [type |-> "message", channel |-> "terminal",
          summary |-> "Session: " \o key]

\* Line 83: the token count of a session.
sessionTokens(sess) ==
    NumOr(sess.totalTokens, NumOr(sess.inputTokens, 0) + NumOr(sess.outputTokens, 0))

\* Lines 46-95: the entry of one session whose updatedAt is a date.  The
\* `details` text is left out: nothing reads it.
sessionEntry(sess) ==
    LET key == StrOr(sess.key, "")
        c == classify(key)
        tokens == sessionTokens(sess)
    IN  [ id         |-> StrOr(sess.sessionId, key),
          timestamp  |-> toISOString(sess.updatedAt[2]),
          type       |-> c.type,
          channel    |-> c.channel,
          summary    |-> c.summary,
          status     |-> "success",
          agentId    |-> IF includes(key, "agent:main") THEN "main"
                         ELSE splitSecond(key, ":"),
          tokensUsed |-> IF tokens = 0 THEN NoNum ELSE Num(tokens) ]

\* Lines 29-99: the loop over the sessions.  new Date(updatedAt).toISOString()
\* raises RangeError when updatedAt is no date; the try around the loop
\* catches it, so the entries pushed before it stay and the rest is skipped.
RECURSIVE sessionEntries(_)
sessionEntries(sessions) ==
    IF sessions = <<>> THEN <<>>
    ELSE IF Head(sessions).updatedAt[1] # "num" THEN <<>>
    ELSE <<sessionEntry(Head(sessions))>> \o sessionEntries(Tail(sessions))

\* Lines 116-126: the entry of one cron job that has run.
cronEntry(job) ==
    [ id         |-> "cron_" \o job.id,
      timestamp  |-> job.lastRunAt,
      type       |-> "cron",
      channel    |-> "cron",
      summary    |-> "Cron: " \o StrOr(job.name, job.id),
      status     |-> IF job.lastRunStatus = "error" THEN "error" ELSE "success",
      agentId    |-> NoStr,
      tokensUsed |-> NoNum ]

\* Lines 114-127: the loop over the jobs; a job without lastRunAt is skipped.
RECURSIVE cronEntries(_)
cronEntries(jobs) ==
    IF jobs = <<>> THEN <<>>
    ELSE (IF Head(jobs).lastRunAt = NoNum THEN <<>> ELSE <<cronEntry(Head(jobs))>>)
         \o cronEntries(Tail(jobs))

\* new Date().toISOString().slice(0, 10): every instant of the model falls on
\* the first day of the epoch.
today(t) == "1970-01-01"

\* line.replace(/^#+\s*/, '')
RECURSIVE stripLeading(_, _)
stripLeading(s, hashes) ==
    IF s # "" /\ hashes /\ Head(s) = "#" THEN stripLeading(Tail(s), TRUE)
    ELSE IF s # "" /\ IsSpace(Head(s)) THEN stripLeading(Tail(s), FALSE)
    ELSE s

\* Lines 137-148: the entries of the first headings of today's note, read at
\* time t.  A note that does not exist has no lines.
memoryEntries(noteLines, t) ==
    LET lines == SelectSeq(noteLines,
                     LAMBDA l : startsWith(l, "## ") \/ startsWith(l, "### "))
        n == IF Len(lines) < MEMORY_HEADINGS THEN Len(lines) ELSE MEMORY_HEADINGS
    IN  [i \in 1..n |->
            [ id         |-> "mem_" \o today(t) \o "_" \o At(Digits, i),
              timestamp  |-> toISOString(t),
              type       |-> "memory",
              channel    |-> "terminal",
              summary    |-> "Memory: " \o stripLeading(lines[i], TRUE),
              status     |-> "success",
              agentId    |-> NoStr,
              tokensUsed |-> NoNum ]]

\* Line 153: the comparator, new Date(b.timestamp) - new Date(a.timestamp).
\* A comparator that returns NaN is read as returning +0.
compare(a, b) ==
    LET tb == getTime(b.timestamp)
        ta == getTime(a.timestamp)
    IN  IF tb = NaN \/ ta = NaN THEN 0 ELSE tb[2] - ta[2]

(***************************************************************************)
(* Array.prototype.sort as Node.js runs it on an array of fewer than 64    *)
(* elements: the leading run is found (and reversed when it descends),     *)
(* then every later element is placed by binary insertion.  With a         *)
(* consistent comparator this is the stable sort of the language; with one *)
(* that is not (a NaN timestamp compares equal to everything) the language *)
(* leaves the order to the engine, and this is the engine's.               *)
(***************************************************************************)
RECURSIVE runEnd(_, _, _)
runEnd(a, descending, idx) ==
    IF idx > Len(a) THEN Len(a)
    ELSE LET order == compare(a[idx], a[idx - 1])
         IN  IF (descending /\ order >= 0) \/ (~descending /\ order < 0)
             THEN idx - 1
             ELSE runEnd(a, descending, idx + 1)

Reverse(a) == [i \in 1..Len(a) |-> a[Len(a) + 1 - i]]

RECURSIVE searchSlot(_, _, _, _)
searchSlot(a, pivot, left, right) ==
    IF left >= right THEN left
    ELSE LET mid == left + ((right - left) \div 2)
         IN  IF compare(pivot, a[mid]) < 0
             THEN searchSlot(a, pivot, left, mid)
             ELSE searchSlot(a, pivot, mid + 1, right)

RECURSIVE insertFrom(_, _)
insertFrom(a, start) ==
    IF start > Len(a) THEN a
    ELSE LET left == searchSlot(a, a[start], 1, start)
         IN  insertFrom(SubSeq(a, 1, left - 1) \o <<a[start]>>
                            \o SubSeq(a, left, start - 1)
                            \o SubSeq(a, start + 1, Len(a)),
                        start + 1)

sort(a) ==
    IF Len(a) < 2 THEN a
    ELSE LET descending == compare(a[2], a[1]) < 0
             run == runEnd(a, descending, 3)
             made == IF descending
                     THEN Reverse(SubSeq(a, 1, run)) \o SubSeq(a, run + 1, Len(a))
                     ELSE a
         IN  insertFrom(made, run + 1)

\* Lines 156-161: keep the first entry of every id.
RECURSIVE dedupe(_, _)
dedupe(entries, seen) ==
    IF entries = <<>> THEN <<>>
    ELSE IF Head(entries).id \in seen THEN dedupe(Tail(entries), seen)
    ELSE <<Head(entries)>> \o dedupe(Tail(entries), seen \cup {Head(entries).id})

\* Lines 152-161: sort by timestamp descending, then dedupe.
finalize(entries) == dedupe(sort(entries), {})

\* What execJSON returned: the parsed list of the reply, or null when the
\* command failed or printed no JSON.
NullOut == [isNull |-> TRUE, list |-> <<>>]
ListOut(xs) == [isNull |-> FALSE, list |-> xs]

\* data?.sessions ?? [] and cronData?.jobs ?? []
listOf(out) == IF out.isNull THEN <<>> ELSE out.list

\* Lines 26-150: the entries of the three sources, in the order read.
mergeSources(sessionsOut, cronOut, noteLines, t) ==
    sessionEntries(listOf(sessionsOut)) \o cronEntries(listOf(cronOut))
        \o memoryEntries(noteLines, t)

(***************************************************************************)
(* api/activity: the query over the feed.                                  *)
(***************************************************************************)
DigitValue(c) == (CHOOSE i \in 1..Len(Digits) : At(Digits, i) = c) - 1

RECURSIVE digitsValue(_, _)
digitsValue(s, acc) ==
    IF s = "" \/ ~OneOf(Head(s), Digits) THEN acc
    ELSE digitsValue(Tail(s), 10 * acc + DigitValue(Head(s)))

\* parseInt(text) in base ten: blanks, a sign, then the digits up to the
\* first character that is none; NaN when no digit is there.
parseInt(text) ==
    LET t == trim(text)
        negative == startsWith(t, "-")
        body == IF negative \/ startsWith(t, "+") THEN Tail(t) ELSE t
    IN  IF body = "" \/ ~OneOf(Head(body), Digits) THEN NaN
        ELSE Num((IF negative THEN -1 ELSE 1) * digitsValue(body, 0))

\* Arithmetic of JavaScript numbers: NaN spreads, and compares false.
Minus(a, b) == IF a = NaN \/ b = NaN THEN NaN ELSE Num(a[2] - b[2])
Plus(a, b) == IF a = NaN \/ b = NaN THEN NaN ELSE Num(a[2] + b[2])
Times(a, b) == IF a = NaN \/ b = NaN THEN NaN ELSE Num(a[2] * b[2])
LessThan(a, b) == a # NaN /\ b # NaN /\ a[2] < b[2]

\* ToIntegerOrInfinity, as slice applies it to its arguments.
ToInteger(a) == IF a = NaN THEN 0 ELSE a[2]

Min(x, y) == IF x < y THEN x ELSE y
Max(x, y) == IF x > y THEN x ELSE y

\* slice taking the element at `end` as well.
slice_throughEnd(a, start, end) ==
    LET n == Len(a)
        s == ToInteger(start)
        e == ToInteger(end)
        from == IF s < 0 THEN Max(n + s, 0) ELSE Min(s, n)
        to == IF e < 0 THEN Max(n + e + 1, 0) ELSE Min(e + 1, n)
    IN  SubSeq(a, from + 1, to)

\* Array.prototype.slice(start, end): a negative index counts from the end.
slice(a, start, end) ==
    LET n == Len(a)
        s == ToInteger(start)
        e == ToInteger(end)
        from == IF s < 0 THEN Max(n + s, 0) ELSE Min(s, n)
        to == IF e < 0 THEN Max(n + e, 0) ELSE Min(e, n)
    IN  SubSeq(a, from + 1, to)

\* A request without parameters.
NoParams ==
    [type |-> NoStr, channel |-> NoStr, search |-> NoStr,
     page |-> NoStr, pageSize |-> NoStr]

\* The filters of lines 179-185 joined by "or" where the code joins them by
\* "and".
matches_anyFilter(e, type, channel, search) ==
    \/ StrOr(type, "") = "" /\ StrOr(channel, "") = "" /\ StrOr(search, "") = ""
    \/ StrOr(type, "") # "" /\ e.type = type
    \/ StrOr(channel, "") # "" /\ e.channel = channel
    \/ StrOr(search, "") # "" /\ includes(toLowerCase(e.summary), search)

\* Lines 179-185: the filters; a parameter that is absent or empty filters
\* nothing.
matches(e, type, channel, search) ==
    /\ StrOr(type, "") # "" => e.type = type
    /\ StrOr(channel, "") # "" => e.channel = channel
    /\ StrOr(search, "") # "" =>
          \/ includes(toLowerCase(e.summary), search)
          \/ includes(e.type, search)
          \/ (e.agentId # NoStr /\ includes(toLowerCase(e.agentId), search))

\* Line 196 with <= for <.
hasMore_inclusive(start, pageSize, total) ==
    LET end == Plus(start, pageSize)
    IN  end # NaN /\ end[2] <= total

\* Line 196: start + pageSize < total.
hasMore(start, pageSize, total) == LessThan(Plus(start, pageSize), Num(total))

\* Lines 170-198: the answer to a query over the feed.
query(feed, params) ==
    LET search == IF params.search = NoStr THEN NoStr ELSE toLowerCase(params.search)
        page == parseInt(IF params.page = NoStr THEN "1" ELSE params.page)
        pageSize == parseInt(IF params.pageSize = NoStr THEN "25" ELSE params.pageSize)
        entries == SelectSeq(feed,
                       LAMBDA e : matches(e, params.type, params.channel, search))
        total == Len(entries)
        start == Times(Minus(page, Num(1)), pageSize)
    IN  [ status   |-> 200,
          items    |-> slice(entries, start, Plus(start, pageSize)),
          total    |-> total,
          page     |-> page,
          pageSize |-> pageSize,
          hasMore  |-> hasMore(start, pageSize, total) ]

(***************************************************************************)
(* api/config: redaction of what the configuration view shows.             *)
(***************************************************************************)
\* JSON values: a tag, the text of a scalar (of a number or a boolean, its
\* JSON text) and the items of a container: the elements of an array, the
\* entries [k, v] of an object in the order of its keys.
Str(s) == [t |-> "string", v |-> s, items |-> <<>>]
Number(n) == [t |-> "number", v |-> n, items |-> <<>>]
Bool(b) == [t |-> "boolean", v |-> b, items |-> <<>>]
Null == [t |-> "null", v |-> "null", items |-> <<>>]
Arr(elements) == [t |-> "array", v |-> "", items |-> elements]
Obj(entries) == [t |-> "object", v |-> "", items |-> entries]

\* What a redacted value is replaced by.
REDACTED == Str("[REDACTED]")

\* The alternatives of the two patterns for sensitive names; the pattern for
\* keys has `apikey` as well, which `key` covers.
SensitiveTerms ==
    {"token", "secret", "key", "password", "auth", "bearer", "credential"}

\* /token|...|apikey/.test(k) without the flag i: the pattern for keys made
\* sensitive to case.
sensitiveKey_caseSensitive(k) ==
    \E term \in SensitiveTerms \cup {"apikey"} : includes(k, term)

\* Line 37: /token|secret|key|password|auth|bearer|credential|apikey/i.test(k)
sensitiveKey(k) ==
    \E term \in SensitiveTerms \cup {"apikey"} : includes(toLowerCase(k), term)

\* Line 21 with >= 8 for > 8.
sensitiveText_fromEight(text) ==
    /\ \E term \in SensitiveTerms : includes(toLowerCase(text), term)
    /\ Len(text) >= 8

\* Line 21: /token|secret|key|password|auth|bearer|credential/i.test(value)
\* && value.length > 8
sensitiveText(text) ==
    /\ \E term \in SensitiveTerms : includes(toLowerCase(text), term)
    /\ Len(text) > 8

\* Line 25: /^[0-9a-f]{20,}$/i.test(value)
longHex(text) ==
    /\ Len(text) >= 20
    /\ \A i \in 1..Len(text) : OneOf(At(text, i), "0123456789abcdefABCDEF")

\* Lines 18-46.
RECURSIVE redact(_)
redact(value) ==
    IF value.t = "string"
    THEN IF sensitiveText(value.v) THEN REDACTED
         ELSE IF longHex(value.v) THEN REDACTED
         ELSE value
    ELSE IF value.t = "array"
    THEN Arr([i \in 1..Len(value.items) |-> redact(value.items[i])])
    ELSE IF value.t = "object"
    THEN Obj([i \in 1..Len(value.items) |->
                 [k |-> value.items[i].k,
                  v |-> IF sensitiveKey(value.items[i].k) THEN REDACTED
                        ELSE redact(value.items[i].v)]])
    ELSE value

(***************************************************************************)
(* api/config: the configuration view.                                     *)
(***************************************************************************)
\* The value of a property that is not there.
Undefined == [t |-> "undefined", v |-> "", items |-> <<>>]

\* value[k] (value?.[k] for null and undefined): the value under the key k
\* of an object, undefined for a key that is not there and for anything that
\* is no object.
Field(value, k) ==
    IF value.t = "object" /\ \E i \in 1..Len(value.items) : value.items[i].k = k
    THEN value.items[CHOOSE i \in 1..Len(value.items) : value.items[i].k = k].v
    ELSE Undefined

\* a ?? b
Coalesce(a, b) == IF a.t \in {"undefined", "null"} THEN b ELSE a

Dash == Str(Placeholder)
Entry(k, v) == [k |-> k, v |-> v]

\* Lines 88-92: the agents of the view.  agents and heartbeat.agents are
\* arrays when they are there.
configAgents(agentsList, heartbeatAgents) ==
    Arr([i \in 1..Len(agentsList.items) |->
            LET a == agentsList.items[i]
                found == {j \in 1..Len(heartbeatAgents.items) :
                             Field(heartbeatAgents.items[j], "agentId") = Field(a, "id")}
            IN  Obj(<< Entry("id", Field(a, "id")),
                       Entry("workspaceDir", Coalesce(Field(a, "workspaceDir"), Dash)),
                       Entry("heartbeat",
                             IF found = {} THEN Null
                             ELSE heartbeatAgents.items[CHOOSE j \in found :
                                                           \A m \in found : j <= m]) >>)])

\* Lines 48-100.
buildConfig(statusData) ==
    LET none == Obj(<<>>)
        gateway == Coalesce(Field(statusData, "gateway"), none)
        gatewaySelf == Coalesce(Field(gateway, "self"), none)
        update == Coalesce(Field(statusData, "update"), none)
        registry == Coalesce(Field(update, "registry"), none)
        memData == Coalesce(Field(statusData, "memory"), none)
        osData == Coalesce(Field(statusData, "os"), none)
        agentsData == Coalesce(Field(statusData, "agents"), none)
        agentsList == Coalesce(Field(agentsData, "agents"), Arr(<<>>))
        heartbeat == Coalesce(Field(statusData, "heartbeat"), none)
        heartbeatAgents == Coalesce(Field(heartbeat, "agents"), Arr(<<>>))
        sessions == Coalesce(Field(statusData, "sessions"), none)
        sessionsDefaults == Coalesce(Field(sessions, "defaults"), none)
        securityAudit == Coalesce(Field(statusData, "securityAudit"), none)
    IN  Obj(<<
          Entry("gateway", Obj(<<
              Entry("host", Coalesce(Field(gatewaySelf, "host"), Dash)),
              Entry("version", Coalesce(Field(gatewaySelf, "version"), Dash)),
              Entry("latestVersion", Coalesce(Field(registry, "latestVersion"), Dash)),
              Entry("platform", Coalesce(Field(gatewaySelf, "platform"),
                                         Coalesce(Field(osData, "label"), Dash))),
              Entry("mode", Coalesce(Field(gateway, "mode"), Dash)),
              Entry("reachable", Coalesce(Field(gateway, "reachable"), Bool("false"))),
              Entry("connectLatencyMs",
                    Coalesce(Field(gateway, "connectLatencyMs"), Null)) >>)),
          Entry("memory", Obj(<<
              Entry("backend", Coalesce(Field(memData, "backend"), Dash)),
              Entry("provider", Coalesce(Field(memData, "provider"), Dash)),
              Entry("files", Coalesce(Field(memData, "files"), Number("0"))),
              Entry("chunks", Coalesce(Field(memData, "chunks"), Number("0"))),
              Entry("workspaceDir", Coalesce(Field(memData, "workspaceDir"), Dash)),
              Entry("searchMode",
                    Coalesce(Field(Field(memData, "custom"), "searchMode"), Dash)),
              Entry("ftsEnabled",
                    Coalesce(Field(Field(memData, "fts"), "available"), Bool("false"))),
              Entry("vectorEnabled",
                    Coalesce(Field(Field(memData, "vector"), "available"),
                             Bool("false"))) >>)),
          Entry("sessions", Obj(<<
              Entry("defaultModel", Coalesce(Field(sessionsDefaults, "model"), Dash)),
              Entry("contextTokens",
                    Coalesce(Field(sessionsDefaults, "contextTokens"), Number("0"))),
              Entry("totalSessions",
                    Coalesce(Field(agentsData, "totalSessions"), Number("0"))) >>)),
          Entry("agents", configAgents(agentsList, heartbeatAgents)),
          Entry("security", redact(securityAudit)),
          Entry("update", Obj(<<
              Entry("installKind", Coalesce(Field(update, "installKind"), Dash)),
              Entry("packageManager", Coalesce(Field(update, "packageManager"), Dash)),
              Entry("registryLatest",
                    Coalesce(Field(registry, "latestVersion"), Dash)) >>)) >>)

(***************************************************************************)
(* The bridges to the command line tool: runCLI and execJSON.              *)
(***************************************************************************)
\* JSON.parse, for texts without escapes in strings and without fractions
\* or exponents in numbers.  A parse step gives whether it succeeded, the
\* value read and the text after it.
ParseFailure == [ok |-> FALSE, value |-> Null, rest |-> ""]
Parsed(value, rest) == [ok |-> TRUE, value |-> value, rest |-> rest]

RECURSIVE skipSpace(_)
skipSpace(text) ==
    IF text # "" /\ IsSpace(Head(text)) THEN skipSpace(Tail(text)) ELSE text

\* The digits text starts with.
RECURSIVE digitsPrefix(_)
digitsPrefix(text) ==
    IF text # "" /\ OneOf(Head(text), Digits)
    THEN Head(text) \o digitsPrefix(Tail(text))
    ELSE ""

\* A string, after its opening quote.
parseString(text) ==
    IF includes(text, "\"")
    THEN LET body == splitFirst(text, "\"")
         IN  IF includes(body, "\\") \/ includes(body, "\n")
             THEN ParseFailure
             ELSE Parsed(Str(body), SubSeq(text, Len(body) + 2, Len(text)))
    ELSE ParseFailure

\* A number: an optional minus and digits without a leading zero.
parseNumber(text) ==
    LET negative == startsWith(text, "-")
        body == IF negative THEN Tail(text) ELSE text
        digits == digitsPrefix(body)
    IN  IF digits = "" \/ (Len(digits) > 1 /\ Head(digits) = "0")
        THEN ParseFailure
        ELSE Parsed(Number((IF negative THEN "-" ELSE "") \o digits),
                    SubSeq(body, Len(digits) + 1, Len(body)))

RECURSIVE parseValue(_)
RECURSIVE parsePairs(_, _)
RECURSIVE parseElements(_, _)

\* The entries of an object after `{` or `,`: text starts at the key.
parsePairs(text, entries) ==
    IF ~startsWith(text, "\"") THEN ParseFailure
    ELSE LET key == parseString(Tail(text))
             colon == skipSpace(key.rest)
         IN  IF ~key.ok \/ ~startsWith(colon, ":") THEN ParseFailure
             ELSE LET val == parseValue(Tail(colon))
                      after == skipSpace(val.rest)
                      all == Append(entries, [k |-> key.value.v, v |-> val.value])
                  IN  IF ~val.ok THEN ParseFailure
                      ELSE IF startsWith(after, ",")
                      THEN parsePairs(skipSpace(Tail(after)), all)
                      ELSE IF startsWith(after, "}")
                      THEN Parsed(Obj(all), Tail(after))
                      ELSE ParseFailure

\* The elements of an array after `[` or `,`.
parseElements(text, elements) ==
    LET val == parseValue(text)
        after == skipSpace(val.rest)
        all == Append(elements, val.value)
    IN  IF ~val.ok THEN ParseFailure
        ELSE IF startsWith(after, ",") THEN parseElements(Tail(after), all)
        ELSE IF startsWith(after, "]") THEN Parsed(Arr(all), Tail(after))
        ELSE ParseFailure

parseValue(text) ==
    LET t == skipSpace(text)
    IN  IF t = "" THEN ParseFailure
        ELSE IF Head(t) = "{"
        THEN LET inner == skipSpace(Tail(t))
             IN  IF startsWith(inner, "}") THEN Parsed(Obj(<<>>), Tail(inner))
                 ELSE parsePairs(inner, <<>>)
        ELSE IF Head(t) = "["
        THEN LET inner == skipSpace(Tail(t))
             IN  IF startsWith(inner, "]") THEN Parsed(Arr(<<>>), Tail(inner))
                 ELSE parseElements(inner, <<>>)
        ELSE IF Head(t) = "\"" THEN parseString(Tail(t))
        ELSE IF Head(t) = "-" \/ OneOf(Head(t), Digits) THEN parseNumber(t)
        ELSE IF startsWith(t, "true") THEN Parsed(Bool("true"), SubSeq(t, 5, Len(t)))
        ELSE IF startsWith(t, "false") THEN Parsed(Bool("false"), SubSeq(t, 6, Len(t)))
        ELSE IF startsWith(t, "null") THEN Parsed(Null, SubSeq(t, 5, Len(t)))
        ELSE ParseFailure

\* JSON.parse(text): the value, or a SyntaxError (ok = FALSE) when text is no
\* JSON value followed by blanks only.
JSONparse(text) ==
    LET r == parseValue(text)
    IN  IF r.ok /\ skipSpace(r.rest) = "" THEN r ELSE ParseFailure

\* text.indexOf('{'), counted from 1; 0 when there is none.
indexOfBrace(text) ==
    IF includes(text, "{") THEN Len(splitFirst(text, "{")) + 1 ELSE 0

\* runCLI (api/status lines 9-19, and the same in the other routes) on a run
\* of the command: execSync raises when the command times out or exits
\* non-zero.  null is returned as the JSON null.
runCLI(run) ==
    IF run.exit # "ok" THEN Null
    ELSE LET jsonStart == indexOfBrace(run.stdout)
         IN  IF jsonStart = 0 THEN Null
             ELSE LET r == JSONparse(SubSeq(run.stdout, jsonStart, Len(run.stdout)))
                  IN  IF r.ok THEN r.value ELSE Null

\* execJSON (api/activity lines 11-18).
execJSON(run) ==
    IF run.exit # "ok" THEN Null
    ELSE LET r == JSONparse(trim(run.stdout))
         IN  IF r.ok THEN r.value ELSE Null

(***************************************************************************)
(* api/channels: the channel health view.                                  *)
(***************************************************************************)
\* Lines 42-51 with the probe looked at before `configured`.
channelStatus_probeFirst(ch) ==
    IF StrOr(ch.probeError, "") # "" THEN "error"
    ELSE IF ch.ok = "true" THEN "connected"
    ELSE IF ~Truthy(ch.configured) THEN "unknown"
    ELSE "disconnected"

\* Lines 38-51: the status of one channel.  ch.configured ?? false is truthy
\* for "true" only; probe.error counts when it is a text that is not empty.
channelStatus(ch) ==
    IF ~Truthy(ch.configured) THEN "unknown"
    ELSE IF StrOr(ch.probeError, "") # "" THEN "error"
    ELSE IF ch.ok = "true" THEN "connected"
    ELSE "disconnected"

\* Line 54: new Date(lastProbeAt).toISOString() raises RangeError when
\* lastProbeAt is there and is no date.
buildChannelsThrows(healthData) ==
    \E i \in 1..Len(healthData.channels) :
        healthData.channels[i].lastProbeAt = BadText

\* Lines 18-79, for a snapshot without channelLabels.  The bot's name and
\* the last error, which only `details` shows, are left out.
buildChannels(healthData) ==
    IF healthData.isNull THEN <<>>
    ELSE [i \in 1..Len(healthData.channels) |->
            LET ch == healthData.channels[i]
            IN  [ id         |-> ch.name,
                  name       |-> ch.name,
                  status     |-> channelStatus(ch),
                  latency    |-> ch.elapsedMs,
                  lastProbe  |-> IF ch.lastProbeAt = NoNum \/ ch.lastProbeAt = Num(0)
                                 THEN NoNum
                                 ELSE toISOString(ch.lastProbeAt[2]),
                  configured |-> Truthy(ch.configured),
                  running    |-> Truthy(ch.running),
                  details    |-> [configured |-> Truthy(ch.configured),
                                  running |-> Truthy(ch.running),
                                  probeOk |-> ch.ok = "true"] ]]

(***************************************************************************)
(* api/system: the cron job summaries and the token usage of the view.     *)
(***************************************************************************)
\* Line 83: the length a job's description is cut to.
DESCRIPTION_LENGTH == 120

\* null, where the view holds a time or nothing.
NullTime == <<"null", 0>>

\* ms ? new Date(ms).toISOString() : null
timeOrNull(ms) == IF ms[1] = "num" /\ ms[2] # 0 THEN toISOString(ms[2]) ELSE NullTime

\* Line 88 with the rate rising with the errors.
successRate_risingWithErrors(consecutiveErrors) ==
    Min(100, NumOrElse(consecutiveErrors, 0) * 20)

\* Line 88: the success rate, from the count of consecutive errors.
successRate(consecutiveErrors) ==
    IF consecutiveErrors = Num(0) THEN 100
    ELSE Max(0, 100 - NumOrElse(consecutiveErrors, 0) * 20)

\* Lines 69-92: the summary of one job.  The fields of job.state and of
\* job.schedule are flattened into the job; an absent state or schedule is
\* one whose fields are absent.
cronJobSummary(job) ==
    [ id                |-> job.id,
      name              |-> job.name,
      schedule          |-> IF job.scheduleKind = "cron" THEN job.scheduleExpr
                            ELSE IF job.scheduleKind = NoStr THEN "manual"
                            ELSE job.scheduleKind,
      description       |-> LET d == IF job.message = NoStr THEN "" ELSE job.message
                            IN  SubSeq(d, 1, Min(Len(d), DESCRIPTION_LENGTH)),
      lastRun           |-> timeOrNull(job.lastRunAtMs),
      nextRun           |-> timeOrNull(job.nextRunAtMs),
      lastStatus        |-> IF job.lastStatus = "ok" THEN "success"
                            ELSE IF job.lastStatus = NoStr THEN "unknown"
                            ELSE job.lastStatus,
      totalRuns         |-> 0,
      successRate       |-> successRate(job.consecutiveErrors),
      enabled           |-> job.enabled,
      consecutiveErrors |-> NumOrElse(job.consecutiveErrors, 0) ]

\* Lines 100-112: the job an enabled heartbeat agent adds.
heartbeatJob(a) ==
    [ id                |-> "heartbeat-" \o a.agentId,
      name              |-> "Heartbeat (" \o a.agentId \o ")",
      schedule          |-> "every " \o a.every,
      description       |-> "Periodic health check and context update",
      lastRun           |-> NullTime,
      nextRun           |-> NullTime,
      lastStatus        |-> "unknown",
      totalRuns         |-> 0,
      successRate       |-> 100,
      enabled           |-> "true",
      consecutiveErrors |-> 0 ]

\* Lines 99-115: the heartbeat agents that are enabled add their job unless a
\* job of that id is there.
RECURSIVE withHeartbeats(_, _)
withHeartbeats(cronJobs, heartbeatAgents) ==
    IF heartbeatAgents = <<>> THEN cronJobs
    ELSE LET a == Head(heartbeatAgents)
             there == \E i \in 1..Len(cronJobs) :
                          cronJobs[i].id = "heartbeat-" \o a.agentId
         IN  withHeartbeats(IF a.enabled = "true" /\ ~there
                            THEN Append(cronJobs, heartbeatJob(a)) ELSE cronJobs,
                            Tail(heartbeatAgents))

\* Lines 56-115: the cron jobs of the view.
cronJobs(cronData, heartbeatAgents) ==
    withHeartbeats([i \in 1..Len(listOf(cronData)) |->
                       cronJobSummary(listOf(cronData)[i])],
                   heartbeatAgents)

\* Lines 149-168: the loop over the sessions.  `usage` holds the rows of
\* byModelMap in the order their models were first met, with totalInput and
\* totalOutput.
RECURSIVE tally(_, _)
tally(sessionsList, usage) ==
    IF sessionsList = <<>> THEN usage
    ELSE LET s == Head(sessionsList)
             model == IF s.model = NoStr THEN "unknown" ELSE s.model
             in == NumOrElse(s.inputTokens, 0)
             out == NumOrElse(s.outputTokens, 0)
             total == NumOrElse(s.totalTokens, in + out)
             known == \E i \in 1..Len(usage.rows) : usage.rows[i].model = model
             add(prev) == [model |-> model, input |-> prev.input + in,
                           output |-> prev.output + out,
                           total |-> prev.total + total,
                           sessions |-> prev.sessions + 1]
             rows == IF known
                     THEN [i \in 1..Len(usage.rows) |->
                              IF usage.rows[i].model = model
                              THEN add(usage.rows[i]) ELSE usage.rows[i]]
                     ELSE Append(usage.rows,
                                 add([input |-> 0, output |-> 0, total |-> 0,
                                      sessions |-> 0]))
         IN  tally(Tail(sessionsList),
                   [rows |-> rows, totalInput |-> usage.totalInput + in,
                    totalOutput |-> usage.totalOutput + out])

\* Line 170: sort((a, b) => b.total - a.total), a stable sort by total,
\* largest first.
RECURSIVE sortByTotal(_, _)
sortByTotal(rows, sorted) ==
    IF rows = <<>> THEN sorted
    ELSE LET r == Head(rows)
             ahead == Cardinality({i \in 1..Len(sorted) : sorted[i].total >= r.total})
         IN  sortByTotal(Tail(rows),
                         SubSeq(sorted, 1, ahead) \o <<r>>
                             \o SubSeq(sorted, ahead + 1, Len(sorted)))

\* Line 176: the overall total.
usageTotal(usage) == usage.totalInput + usage.totalOutput

\* Lines 142-179: the token usage of the view.
tokenUsage(sessionsData) ==
    LET sessionsList == listOf(sessionsData)
        usage == tally(sessionsList,
                       [rows |-> <<>>, totalInput |-> 0, totalOutput |-> 0])
    IN  [ byModel |-> sortByTotal(usage.rows, <<>>),
          totals  |-> [ input    |-> usage.totalInput,
                        output   |-> usage.totalOutput,
                        total    |-> usageTotal(usage),
                        sessions |-> Len(sessionsList) ] ]

\* Lines 19-195: the cron jobs and the token usage of the system view.  Its
\* channels, config and systemInfo, which neither of the two reads, are left
\* out.
buildSystemData(heartbeatAgents, cronData, sessionsData) ==
    [ cronJobs   |-> cronJobs(cronData, heartbeatAgents),
      tokenUsage |-> tokenUsage(sessionsData) ]

(***************************************************************************)
(* The state of a process that has handled no request.                     *)
(***************************************************************************)
NoCache == [present |-> FALSE]
NoRequest == [route |-> "none"]
NoResponse == [status |-> 0]
NoInput == [kind |-> "none"]
NoOutput == [done |-> FALSE]
NoTasks == <<>>

(***************************************************************************)
(* The status derivations as functions of their snapshots.                 *)
(***************************************************************************)
ReachableValues == {"true", "false", "absent"}

ProbeInputs ==
    {[kind |-> "probe", statusData |-> sd, healthData |-> hd] :
        sd \in {NullStatus} \cup
               {[EmptyStatus EXCEPT !.reachable = r] : r \in ReachableValues},
        hd \in HealthSnapshots}

\* The sections of a status snapshot that buildStatus reads, and the fields
\* of the model that stand for each.
SectionFields ==
    [ gateway        |-> {"reachable", "selfVersion"},
      update         |-> {"latestVersion"},
      os             |-> {"osLabel"},
      memory         |-> {"memFiles", "memChunks", "memBackend"},
      gatewayService |-> {"runtimeShort"},
      sessions       |-> {"recentUpdatedAt"},
      heartbeat      |-> {"heartbeat", "mainEvery"} ]

\* A status snapshot with every section present and well formed.
FullStatus ==
    [ isNull          |-> FALSE,
      reachable       |-> "true",
      selfVersion     |-> "2026.2.1",
      latestVersion   |-> "2026.2.3",
      osLabel         |-> "macos 15.3",
      memFiles        |-> Num(12),
      memChunks       |-> Num(40),
      memBackend      |-> "sqlite",
      runtimeShort    |-> "string",
      recentUpdatedAt |-> Num(1),
      heartbeat       |-> "array",
      mainEvery       |-> "30m",
      channelSummary  |-> <<>> ]

\* The snapshot with the sections of `present` only.
WithSections(present) ==
    [f \in DOMAIN EmptyStatus |->
        IF \E sec \in present : f \in SectionFields[sec]
        THEN FullStatus[f] ELSE EmptyStatus[f]]

\* Snapshots with a present section that is not well formed: a runtimeShort
\* that is a number, an updatedAt that is no date, heartbeat.agents that is
\* an object.
MalformedStatus ==
    {[FullStatus EXCEPT !.runtimeShort = "number"],
     [FullStatus EXCEPT !.recentUpdatedAt = BadText],
     [FullStatus EXCEPT !.heartbeat = "object"]}

\* Every subset of the sections, with and without an answer of the health
\* command.
SectionInputs ==
    {[kind |-> "probe", statusData |-> sd, healthData |-> hd] :
        sd \in {NullStatus} \cup MalformedStatus
               \cup {WithSections(present) : present \in SUBSET DOMAIN SectionFields},
        hd \in {NullHealth,
                [isNull |-> FALSE,
                 channels |-> <<[name |-> "telegram", configured |-> "true",
                                 ok |-> "true"]>>]}}

SummaryInputs ==
    {[kind |-> "summary", statusData |-> sd, healthData |-> NullHealth] :
        sd \in {NullStatus} \cup
               {[EmptyStatus EXCEPT !.reachable = r, !.channelSummary = cs] :
                   r \in ReachableValues,
                   cs \in SeqsUpTo(SummaryLinePool, MaxSummaryLines)}}

InitDerive ==
    /\ now = 0
    /\ tasks = NoTasks
    /\ spawned = <<>>
    /\ cache = NoCache
    /\ cachedActivity = NoCache
    /\ cacheTimestamp = 0
    /\ req = NoRequest
    /\ resp = NoResponse
    /\ input \in ProbeInputs \cup SectionInputs \cup SummaryInputs
    /\ output = NoOutput

\* buildStatus either raises or returns the status.
DeriveProbeStatus ==
    /\ input.kind = "probe"
    /\ ~output.done
    /\ output' = IF buildStatusThrows(input.statusData)
                 THEN [done |-> TRUE, raised |-> TRUE]
                 ELSE [done |-> TRUE, raised |-> FALSE,
                       data |-> buildStatus(input.statusData, input.healthData, now)]
    /\ UNCHANGED <<now, cache, cachedActivity, cacheTimestamp, req, resp, input,
                   tasks, spawned>>

DeriveSummaryStatus ==
    /\ input.kind = "summary"
    /\ ~output.done
    /\ output' = [done |-> TRUE,
                  data |-> buildStatusFromSummary(input.statusData, now)]
    /\ UNCHANGED <<now, cache, cachedActivity, cacheTimestamp, req, resp, input,
                   tasks, spawned>>

NextDerive == DeriveProbeStatus \/ DeriveSummaryStatus

SpecDerive == InitDerive /\ [][NextDerive]_vars

(***************************************************************************)
(* The clock.                                                              *)
(***************************************************************************)
\* The instants at which requests arrive: the start, and the instants just
\* before, at and after the expiry of what was cached at the start.
Instants ==
    {MaxTime + d : d \in {0, ACTIVITY_CACHE_TTL - 1, ACTIVITY_CACHE_TTL,
                          STATUS_CACHE_TTL - 1, STATUS_CACHE_TTL,
                          STATUS_CACHE_TTL + ACTIVITY_CACHE_TTL}}

\* Time passes between two requests: the clock moves to a later instant of S.
AdvanceTo(S) ==
    /\ \E t \in S : t > now /\ now' = t
    /\ UNCHANGED <<cache, cachedActivity, cacheTimestamp, req, resp, input, output,
                   tasks, spawned>>

(***************************************************************************)
(* api/activity: GET.                                                      *)
(***************************************************************************)
\* What the handlers record of a request in `req`: the route, the time `at`
\* it arrived, whether it was a cache `hit`, how many `commands` it ran,
\* whether every command it ran `failed` (the bridge returned null), the
\* cache it met (`prior`) and, for a query, its `params`.  In `resp` the
\* flags `cached` and `stale` that a response leaves out read FALSE, and the
\* `timestamp` of the response is left out.

\* The test of line 22 never passing: every request rebuilds the feed.
activityCacheFresh_never == FALSE

\* Line 22: whether getSessionActivity answers from the cache.
activityCacheFresh ==
    cachedActivity.present /\ now - cacheTimestamp < ACTIVITY_CACHE_TTL

\* Lines 168-203 with getSessionActivity (lines 20-166) inlined: one request
\* with the given query parameters.  sessionsOut and cronOut are what the two
\* commands return if they are run, noteLines the lines of today's note.
ActivityGET(sessionsOut, cronOut, noteLines, params) ==
    LET hit == activityCacheFresh
        feed == IF hit THEN cachedActivity.entries
                ELSE finalize(mergeSources(sessionsOut, cronOut, noteLines, now))
    IN  /\ cachedActivity' = [present |-> TRUE, entries |-> feed]
        /\ cacheTimestamp' = IF hit THEN cacheTimestamp ELSE now
        /\ input' = IF hit THEN input
                    ELSE [kind |-> "feed", sessions |-> sessionsOut,
                          jobs |-> cronOut, note |-> noteLines]
        /\ req' = [route |-> "activity", at |-> now, hit |-> hit,
                   commands |-> IF hit THEN 0 ELSE 2,
                   failed |-> ~hit /\ sessionsOut.isNull /\ cronOut.isNull,
                   prior |-> IF cachedActivity.present
                             THEN [present |-> TRUE, ts |-> cacheTimestamp,
                                   data |-> cachedActivity.entries]
                             ELSE NoCache,
                   params |-> params]
        /\ resp' = query(feed, params)
        /\ UNCHANGED <<now, cache, output,
                       tasks, spawned>>

(***************************************************************************)
(* api/status: GET.                                                        *)
(***************************************************************************)
\* The test of line 106 with the entry expiring one millisecond early.
statusCacheFresh_expiresEarly ==
    cache.present /\ now - cache.ts < STATUS_CACHE_TTL - 1

\* Line 106: whether GET answers from the cache.
statusCacheFresh == cache.present /\ now - cache.ts < STATUS_CACHE_TTL

\* Lines 104-129: one request.  statusData and healthData are what runCLI
\* returns for the two commands if they are run; runCLI never raises, a
\* command that fails gives null.
StatusGET(statusData, healthData) ==
    LET hit == statusCacheFresh
        request == [route |-> "status", at |-> now, hit |-> hit,
                    commands |-> IF hit THEN 0 ELSE 2,
                    failed |-> ~hit /\ statusData.isNull /\ healthData.isNull,
                    prior |-> cache]
    IN  /\ req' = request
        /\ IF hit
           THEN /\ resp' = [status |-> 200, data |-> cache.data,
                            cached |-> TRUE, stale |-> FALSE]
                /\ UNCHANGED cache
           ELSE IF buildStatusThrows(statusData)
           THEN /\ resp' = IF cache.present
                           THEN [status |-> 200, data |-> cache.data,
                                 cached |-> TRUE, stale |-> TRUE]
                           ELSE [status |-> 500,
                                 error |-> "Failed to fetch status"]
                /\ UNCHANGED cache
           ELSE LET data == buildStatus(statusData, healthData, now)
                IN  /\ cache' = [present |-> TRUE, data |-> data, ts |-> now]
                    /\ resp' = [status |-> 200, data |-> data,
                                cached |-> FALSE, stale |-> FALSE]
        /\ UNCHANGED <<now, cachedActivity, cacheTimestamp, input, output,
                       tasks, spawned>>

(***************************************************************************)
(* The two routes and their caches: requests arrive as time passes, and    *)
(* every command a request runs may answer or fail.                        *)
(***************************************************************************)
\* What `openclaw status --json` may answer: nothing, a gateway that is up,
\* and a runtimeShort that is no string.
StatusOutcomes ==
    {NullStatus,
     [EmptyStatus EXCEPT !.reachable = "true", !.selfVersion = "2026.2.1"],
     [EmptyStatus EXCEPT !.reachable = "true", !.runtimeShort = "number"]}

\* What `openclaw health --json` may answer: nothing, or telegram probing ok.
HealthOutcomes ==
    {NullHealth,
     [isNull |-> FALSE,
      channels |-> <<[name |-> "telegram", configured |-> "true", ok |-> "true"]>>]}

SessionsOutcomes ==
    {NullOut,
     ListOut(<<[key |-> "agent:main:main", sessionId |-> "s1",
                updatedAt |-> Num(1), totalTokens |-> Num(10),
                inputTokens |-> NoNum, outputTokens |-> NoNum]>>)}

CronOutcomes ==
    {NullOut,
     ListOut(<<[id |-> "x", name |-> "backup", lastRunStatus |-> "error",
                lastRunAt |-> toISOString(MaxTime)]>>)}

Init ==
    /\ now = MaxTime
    /\ tasks = NoTasks
    /\ spawned = <<>>
    /\ cache = NoCache
    /\ cachedActivity = NoCache
    /\ cacheTimestamp = 0
    /\ req = NoRequest
    /\ resp = NoResponse
    /\ input = NoInput
    /\ output = NoOutput

StatusRequest ==
    \E statusData \in StatusOutcomes, healthData \in HealthOutcomes :
        StatusGET(statusData, healthData)

ActivityRequest ==
    \E sessionsOut \in SessionsOutcomes, cronOut \in CronOutcomes :
        ActivityGET(sessionsOut, cronOut, <<>>, NoParams)

Advance == AdvanceTo(Instants)

Next == StatusRequest \/ ActivityRequest \/ Advance

Spec == Init /\ [][Next]_vars

\* The cache of the route the last request went to, in the shape of
\* req.prior.
RouteCache ==
    IF req.route = "status" THEN cache
    ELSE IF cachedActivity.present
    THEN [present |-> TRUE, ts |-> cacheTimestamp, data |-> cachedActivity.entries]
    ELSE NoCache

\* Whether the last request refreshed and every command it ran failed.
FailedRefresh == req.route \in {"status", "activity"} /\ ~req.hit /\ req.failed

\* C1: a refresh whose commands fail while the cache holds an earlier value
\* answers with that value flagged stale, and leaves the cache as it was.
C1_FailedRefreshServesStale ==
    (FailedRefresh /\ req.prior.present)
        => /\ resp.status = 200
           /\ "stale" \in DOMAIN resp /\ resp.stale
           /\ "data" \in DOMAIN resp /\ resp.data = req.prior.data
           /\ RouteCache = req.prior

\* C2: a refresh whose commands fail while the cache holds nothing answers
\* with an error status and an error payload, not with derived data.
C2_FailedRefreshWithoutCacheIsError ==
    (FailedRefresh /\ ~req.prior.present)
        => /\ resp.status # 200
           /\ "error" \in DOMAIN resp
           /\ ~RouteCache.present

\* C3: a request that meets a cached entry younger than the TTL of its route
\* is answered with exactly the cached data and runs no command.
C3_FreshEntryServedWithoutCommand ==
    /\ (req.route = "status" /\ req.prior.present
            /\ req.at - req.prior.ts < STATUS_CACHE_TTL)
           => /\ req.commands = 0
              /\ resp.status = 200 /\ resp.data = req.prior.data
              /\ cache = req.prior
    /\ (req.route = "activity" /\ req.prior.present
            /\ req.at - req.prior.ts < ACTIVITY_CACHE_TTL)
           => /\ req.commands = 0
              /\ resp = query(req.prior.data, req.params)
              /\ RouteCache = req.prior

\* A status request answered from an entry fetched one millisecond short of
\* the TTL earlier.
C3_Witness ==
    /\ req.route = "status"
    /\ req.prior.present
    /\ req.at - req.prior.ts = STATUS_CACHE_TTL - 1
    /\ req.commands = 0
    /\ resp.data = req.prior.data

(***************************************************************************)
(* The activity feed over the records of its sources: the sources hold a   *)
(* fixed set of records, and requests arrive as time passes.               *)
(***************************************************************************)
SessionPool ==
    {[key |-> k[1], sessionId |-> k[2], updatedAt |-> u,
      totalTokens |-> k[3], inputTokens |-> k[4], outputTokens |-> k[5]] :
        k \in {<<"agent:main:main", "s1", Num(10), NoNum, NoNum>>,
               <<"agent:ops:discord:7", "s1", NoNum, Num(3), Num(4)>>},
        u \in {Num(t) : t \in 1..MaxTime} \cup {BadText}}

CronPool ==
    {[id |-> j[1], name |-> j[2], lastRunStatus |-> j[3], lastRunAt |-> at] :
        j \in {<<"x", "backup", "error">>, <<"y", NoStr, NoStr>>},
        at \in {NoNum, BadText} \cup {toISOString(t) : t \in 1..MaxTime}}

NoteLinePool == {"## Deploy", "shipped the fix"}

\* The sources with at most n records between them.
FeedInputs(n) ==
    UNION {{[kind |-> "feed", sessions |-> ListOut(ss), jobs |-> ListOut(js),
             note |-> ls] :
                ss \in [1..c[1] -> SessionPool],
                js \in [1..c[2] -> CronPool],
                ls \in [1..c[3] -> NoteLinePool]} :
        c \in {d \in (0..n) \X (0..n) \X (0..n) : d[1] + d[2] + d[3] <= n}}

FeedParams == {NoParams, [NoParams EXCEPT !.type = "cron"]}

\* The instants around the expiry of a feed cached at the start.
FeedInstants == {t \in Instants : t <= MaxTime + ACTIVITY_CACHE_TTL}

InitFeed ==
    /\ now = MaxTime
    /\ tasks = NoTasks
    /\ spawned = <<>>
    /\ cache = NoCache
    /\ cachedActivity = NoCache
    /\ cacheTimestamp = 0
    /\ req = NoRequest
    /\ resp = NoResponse
    /\ input \in FeedInputs(MaxRecords)
    /\ output = NoOutput

FeedRequest ==
    \E params \in FeedParams :
        ActivityGET(input.sessions, input.jobs, input.note, params)

FeedAdvance == AdvanceTo(FeedInstants)

NextFeed == FeedRequest \/ FeedAdvance

SpecFeed == InitFeed /\ [][NextFeed]_vars

\* The entries the last refresh of the feed merged, before sort and dedupe.
Merged == mergeSources(input.sessions, input.jobs, input.note, cacheTimestamp)

\* Whether every two entries of a that both carry a readable timestamp are in
\* descending order of it.
SortedDescending(a) ==
    \A i, j \in 1..Len(a) :
        (i < j /\ getTime(a[i].timestamp) # NaN /\ getTime(a[j].timestamp) # NaN)
            => getTime(a[i].timestamp)[2] >= getTime(a[j].timestamp)[2]

\* C7: the cached feed and the page of it a request returns are sorted by
\* timestamp descending, whatever records the sources held.
C7_FeedSortedDescending ==
    (req.route = "activity" /\ resp.status = 200)
        => SortedDescending(cachedActivity.entries) /\ SortedDescending(resp.items)

\* C8: after normalization no id occurs twice in the feed, and the entry kept
\* for an id is at least as late as every merged entry of that id.
C8_UniqueIdsLatestKept ==
    cachedActivity.present
        => LET feed == cachedActivity.entries
           IN  /\ \A i, j \in 1..Len(feed) : i # j => feed[i].id # feed[j].id
               /\ \A i \in 1..Len(feed) : \A k \in 1..Len(Merged) :
                     (Merged[k].id = feed[i].id /\ getTime(Merged[k].timestamp) # NaN)
                         => /\ getTime(feed[i].timestamp) # NaN
                            /\ getTime(feed[i].timestamp)[2]
                                   >= getTime(Merged[k].timestamp)[2]

\* C9: sort-then-dedupe applied to the feed it produced returns that feed.
C9_FinalizeIdempotent ==
    cachedActivity.present
        => finalize(cachedActivity.entries) = cachedActivity.entries

(***************************************************************************)
(* Queries over the activity feed: the sources hold one of a few sets of   *)
(* records, and a caller polls the route with one combination of           *)
(* parameters, as the dashboard's activity page does on its interval.      *)
(***************************************************************************)
QuerySessions ==
    << [key |-> "agent:main:main", sessionId |-> "s1", updatedAt |-> Num(2),
        totalTokens |-> Num(10), inputTokens |-> NoNum, outputTokens |-> NoNum],
       [key |-> "agent:ops:discord:7", sessionId |-> "s2", updatedAt |-> Num(1),
        totalTokens |-> NoNum, inputTokens |-> Num(3), outputTokens |-> Num(4)],
       [key |-> "agent:ops:cron:nightly", sessionId |-> NoStr, updatedAt |-> Num(1),
        totalTokens |-> NoNum, inputTokens |-> NoNum, outputTokens |-> NoNum] >>

QueryJobs ==
    << [id |-> "x", name |-> "backup", lastRunStatus |-> "error",
        lastRunAt |-> toISOString(1)] >>

QueryInputs ==
    {[kind |-> "feed", sessions |-> ListOut(SubSeq(QuerySessions, 1, n)),
      jobs |-> ListOut(SubSeq(QueryJobs, 1, w[1])), note |-> w[2]] :
        n \in 0..Len(QuerySessions),
        w \in {<<0, <<>>>>, <<1, <<>>>>, <<1, <<"## Deploy">>>>}}

PageTexts == {NoStr, "abc", "-1", "0", "1", "2"}
PageSizeTexts == {NoStr, "abc", "-2", "0", "1", "2"}

QueryParams ==
    [type : {NoStr, "cron", "message"}, channel : {NoStr, "telegram"},
     search : {NoStr, "MAIN", "Ops"}, page : PageTexts, pageSize : PageSizeTexts]

\* The start, and the expiry of a feed cached at the start.
QueryInstants == {MaxTime, MaxTime + ACTIVITY_CACHE_TTL}

InitQuery ==
    /\ now = MaxTime
    /\ tasks = NoTasks
    /\ spawned = <<>>
    /\ cache = NoCache
    /\ cachedActivity = NoCache
    /\ cacheTimestamp = 0
    /\ req \in {[route |-> "none", params |-> p] : p \in QueryParams}
    /\ resp = NoResponse
    /\ input \in QueryInputs
    /\ output = NoOutput

QueryRequest ==
    ActivityGET(input.sessions, input.jobs, input.note, req.params)

QueryAdvance == AdvanceTo(QueryInstants)

NextQuery == QueryRequest \/ QueryAdvance

SpecQuery == InitQuery /\ [][NextQuery]_vars

\* C10: whatever integers page and pageSize are, a query returns at most
\* pageSize items.
C10_AtMostPageSizeItems ==
    (req.route = "activity" /\ resp.status = 200
        /\ resp.page # NaN /\ resp.pageSize # NaN)
        => Len(resp.items) <= resp.pageSize[2]

\* Whether text contains the search text, compared without regard to case.
ContainsIgnoringCase(text, search) ==
    includes(toLowerCase(text), toLowerCase(search))

\* Whether the entry e passes the filters a request gave: type and channel by
\* equality, the search text in the summary, the type or the agent id.
PassesFilters(e, params) ==
    /\ params.type # NoStr => e.type = params.type
    /\ params.channel # NoStr => e.channel = params.channel
    /\ params.search # NoStr =>
          \/ ContainsIgnoringCase(e.summary, params.search)
          \/ ContainsIgnoringCase(e.type, params.search)
          \/ (e.agentId # NoStr /\ ContainsIgnoringCase(e.agentId, params.search))

\* The entries of the cached feed that pass the filters of the last request.
Passing == SelectSeq(cachedActivity.entries, LAMBDA e : PassesFilters(e, req.params))

\* C11: hasMore is true exactly when page * pageSize < total, total being the
\* number of feed entries that pass the filters.
C11_HasMoreIffPageTimesSizeBelowTotal ==
    (req.route = "activity" /\ resp.status = 200)
        => /\ resp.total = Len(Passing)
           /\ resp.hasMore <=> /\ resp.page # NaN
                               /\ resp.pageSize # NaN
                               /\ resp.page[2] * resp.pageSize[2] < resp.total

\* A second page of one entry with more entries after it.
C11_Witness ==
    /\ req.route = "activity"
    /\ resp.status = 200
    /\ resp.page = Num(2)
    /\ resp.pageSize = Num(1)
    /\ resp.total > 2
    /\ resp.hasMore

\* C12: total counts, and items are a page of, exactly the feed entries that
\* pass every filter given; with a type filter every item has that type.
C12_FiltersAreConjunctive ==
    (req.route = "activity" /\ resp.status = 200)
        => /\ resp.total = Len(Passing)
           /\ \A i \in 1..Len(resp.items) :
                 /\ PassesFilters(resp.items[i], req.params)
                 /\ req.params.type # NoStr => resp.items[i].type = req.params.type
           /\ resp.items = slice(Passing,
                                 Times(Minus(resp.page, Num(1)), resp.pageSize),
                                 Times(resp.page, resp.pageSize))

\* A query with a type filter and a search text where some entries of the
\* type do not contain the text and some do.
C12_Witness ==
    /\ req.route = "activity"
    /\ resp.status = 200
    /\ req.params.type # NoStr
    /\ req.params.search # NoStr
    /\ resp.total > 0
    /\ resp.total < Len(SelectSeq(cachedActivity.entries,
                                  LAMBDA e : e.type = req.params.type))
    /\ Len(resp.items) > 0

(***************************************************************************)
(* redact as a function of its argument.                                   *)
(***************************************************************************)
\* Texts on both sides of the two tests: short and long texts with a
\* sensitive term in either case, and texts of hexadecimal digits around the
\* length of twenty, in lower case, in upper case and with a letter that is
\* no digit.
LeafTexts ==
    { "box1", "abc123",
      "my-token-1", "token", "Bearer x", "SECRET-99",
      "0123456789abcdef0123456789abcdef",
      "0123456789abcdef0123",
      "0123456789abcdef012",
      "0123456789ABCDEF0123",
      "0123456789abcdefg012",
      "01234567890123456789" }

Leaves == {Str(text) : text \in LeafTexts} \cup {Number("42"), Bool("true"), Null}

Keys == {"apiKey", "Authorization", "hostname", "items"}

\* A leaf, or a value of depth d - 1 as an element of an array or under a
\* key of an object, next to a plain sibling.
RECURSIVE JsonValues(_)
JsonValues(d) ==
    IF d = 0 THEN Leaves
    ELSE LET inner == JsonValues(d - 1)
         IN  Leaves
             \cup {Arr(<<v, Str("box1")>>) : v \in inner}
             \cup {Obj(<<[k |-> k, v |-> v], [k |-> "name", v |-> Str("box1")]>>) :
                      k \in Keys, v \in inner}

InitRedact ==
    /\ now = 0
    /\ tasks = NoTasks
    /\ spawned = <<>>
    /\ cache = NoCache
    /\ cachedActivity = NoCache
    /\ cacheTimestamp = 0
    /\ req = NoRequest
    /\ resp = NoResponse
    /\ input \in {[kind |-> "redact", value |-> v] : v \in JsonValues(MaxDepth)}
    /\ output = NoOutput

RedactValue ==
    /\ input.kind = "redact"
    /\ ~output.done
    /\ output' = [done |-> TRUE, data |-> redact(input.value)]
    /\ UNCHANGED <<now, cache, cachedActivity, cacheTimestamp, req, resp, input,
                   tasks, spawned>>

NextRedact == RedactValue

SpecRedact == InitRedact /\ [][NextRedact]_vars

\* Whether a key contains one of the sensitive terms, in any case.
KeyIsSensitive(k) ==
    \E term \in {"token", "secret", "key", "password", "auth", "bearer",
                 "credential", "apikey"} :
        ContainsIgnoringCase(k, term)

\* Whether out is in with the value of every entry under a sensitive key
\* replaced by the marker, at every depth, and every other entry and every
\* element in its place.  Leaves are not compared.
RECURSIVE SensitiveKeysRedacted(_, _)
SensitiveKeysRedacted(in, out) ==
    IF in.t = "object"
    THEN /\ out.t = "object"
         /\ Len(out.items) = Len(in.items)
         /\ \A i \in 1..Len(in.items) :
               /\ out.items[i].k = in.items[i].k
               /\ IF KeyIsSensitive(in.items[i].k)
                  THEN out.items[i].v = REDACTED
                  ELSE SensitiveKeysRedacted(in.items[i].v, out.items[i].v)
    ELSE IF in.t = "array"
    THEN /\ out.t = "array"
         /\ Len(out.items) = Len(in.items)
         /\ \A i \in 1..Len(in.items) :
               SensitiveKeysRedacted(in.items[i], out.items[i])
    ELSE TRUE

\* C13: the value of every entry whose key contains a sensitive term, in any
\* case, is replaced by the marker whatever it is, at every depth; every
\* other entry keeps its key and has its value redacted in turn; the two
\* mappings of the example come out as stated.
C13_SensitiveKeysRedacted ==
    /\ redact(Obj(<<[k |-> "apiKey", v |-> Str("abc123")]>>))
           = Obj(<<[k |-> "apiKey", v |-> REDACTED]>>)
    /\ redact(Obj(<<[k |-> "hostname", v |-> Str("box1")]>>))
           = Obj(<<[k |-> "hostname", v |-> Str("box1")]>>)
    /\ (output.done /\ input.kind = "redact")
           => SensitiveKeysRedacted(input.value, output.data)

\* A mapping nested in a mapping whose sensitive key holds a value that is
\* no string, redacted.
C13_Witness ==
    /\ output.done
    /\ input.kind = "redact"
    /\ input.value.t = "object"
    /\ ~KeyIsSensitive(input.value.items[1].k)
    /\ input.value.items[1].v.t = "object"
    /\ KeyIsSensitive(input.value.items[1].v.items[1].k)
    /\ input.value.items[1].v.items[1].v.t = "number"
    /\ output.data.items[1].v.items[1].v = REDACTED

\* Whether a text is made of hexadecimal digits only, with its letters in
\* lower case, or in either case when anyCase.
PureHex(text, anyCase) ==
    \A i \in 1..Len(text) :
        \/ OneOf(At(text, i), "0123456789abcdef")
        \/ anyCase /\ OneOf(At(text, i), "ABCDEF")

\* Whether the content of a text makes it sensitive: longer than 8
\* characters with a sensitive term in it, or at least 20 hexadecimal digits.
ContentIsSensitive(text, anyCase) ==
    \/ /\ Len(text) > 8
       /\ \E term \in {"token", "secret", "key", "password", "auth", "bearer",
                       "credential"} :
             ContainsIgnoringCase(text, term)
    \/ Len(text) >= 20 /\ PureHex(text, anyCase)

\* Whether out is in with every string that no sensitive key catches, at any
\* depth and inside arrays, replaced by the marker when its content is
\* sensitive and unchanged otherwise, and every other scalar unchanged.
RECURSIVE ContentRedacted(_, _, _)
ContentRedacted(in, out, anyCase) ==
    IF in.t = "object"
    THEN /\ out.t = "object"
         /\ Len(out.items) = Len(in.items)
         /\ \A i \in 1..Len(in.items) :
               KeyIsSensitive(in.items[i].k)
                   \/ ContentRedacted(in.items[i].v, out.items[i].v, anyCase)
    ELSE IF in.t = "array"
    THEN /\ out.t = "array"
         /\ Len(out.items) = Len(in.items)
         /\ \A i \in 1..Len(in.items) :
               ContentRedacted(in.items[i], out.items[i], anyCase)
    ELSE IF in.t = "string"
    THEN out = IF ContentIsSensitive(in.v, anyCase) THEN REDACTED ELSE in
    ELSE out = in

\* C14: a string no sensitive key catches is replaced by the marker when it
\* is longer than 8 characters and contains a sensitive term, or when it is
\* pure lowercase hexadecimal of length at least 20; every other string and
\* every other scalar is returned unchanged.
C14_ContentHeuristics ==
    (output.done /\ input.kind = "redact")
        => ContentRedacted(input.value, output.data, FALSE)

\* C14 (amended): the same with the hexadecimal test in either case: a
\* string of at least 20 hexadecimal digits is replaced whether its letters
\* are in lower or in upper case.
C14_ContentHeuristicsAnyCaseHex ==
    /\ redact(Str("0123456789abcdef0123456789abcdef")) = REDACTED
    /\ (output.done /\ input.kind = "redact")
           => ContentRedacted(input.value, output.data, TRUE)

\* Twenty hexadecimal digits with letters in upper case, inside an array
\* under a plain key, replaced by the marker.
C14_Witness ==
    /\ output.done
    /\ input.kind = "redact"
    /\ input.value.t = "object"
    /\ ~KeyIsSensitive(input.value.items[1].k)
    /\ input.value.items[1].v.t = "array"
    /\ input.value.items[1].v.items[1] = Str("0123456789ABCDEF0123")
    /\ output.data.items[1].v.items[1] = REDACTED
    /\ output.data.items[1].v.items[2] = Str("box1")

(***************************************************************************)
(* The bridges as functions of a run of the command.                       *)
(***************************************************************************)
\* What the command may print: a snapshot alone, after warnings, between
\* blanks, cut short, followed by other text, and texts that are no object.
StdoutTexts ==
    { "{\"a\":1}",
      "Doctor warnings: 1\n{\"a\":1}\n",
      "  {\"a\": 1}\n",
      "{\"sessions\":[{\"key\":\"agent:main:main\"}],\"count\":1}",
      "config {x} overridden\n{\"a\":1}",
      "{}",
      "",
      "command not found",
      "{\"a\":",
      "{\"a\":1} done",
      "[1]",
      "[{\"a\":1}]",
      "42",
      "null" }

Runs == [exit : {"ok", "timeout", "nonzero"}, stdout : StdoutTexts]

InitBridge ==
    /\ now = 0
    /\ tasks = NoTasks
    /\ spawned = <<>>
    /\ cache = NoCache
    /\ cachedActivity = NoCache
    /\ cacheTimestamp = 0
    /\ req = NoRequest
    /\ resp = NoResponse
    /\ input \in {[kind |-> "bridge", bridge |-> b, run |-> r] :
                     b \in {"runCLI", "execJSON"}, r \in Runs}
    /\ output = NoOutput

CallRunCLI ==
    /\ input.kind = "bridge"
    /\ input.bridge = "runCLI"
    /\ ~output.done
    /\ output' = [done |-> TRUE, data |-> runCLI(input.run)]
    /\ UNCHANGED <<now, cache, cachedActivity, cacheTimestamp, req, resp, input,
                   tasks, spawned>>

CallExecJSON ==
    /\ input.kind = "bridge"
    /\ input.bridge = "execJSON"
    /\ ~output.done
    /\ output' = [done |-> TRUE, data |-> execJSON(input.run)]
    /\ UNCHANGED <<now, cache, cachedActivity, cacheTimestamp, req, resp, input,
                   tasks, spawned>>

NextBridge == CallRunCLI \/ CallExecJSON

SpecBridge == InitBridge /\ [][NextBridge]_vars

\* The parse of a run's output from its first `{` to its end; null when the
\* run timed out or exited non-zero, when there is no `{` and when that text
\* does not parse.
ParseFromFirstBrace(run) ==
    IF run.exit = "ok" /\ includes(run.stdout, "{")
    THEN LET from == Len(splitFirst(run.stdout, "{")) + 1
             r == JSONparse(SubSeq(run.stdout, from, Len(run.stdout)))
         IN  IF r.ok THEN r.value ELSE Null
    ELSE Null

\* C15: whatever the command printed, each bridge returns the parse of the
\* output from its first `{`, and null when there is none, when the parse
\* fails and when the command timed out or exited non-zero.
C15_BridgeParsesFromFirstBrace ==
    (output.done /\ input.kind = "bridge")
        => output.data = ParseFromFirstBrace(input.run)

\* The sections that are absent from the status snapshot of the derivation:
\* all of them when the snapshot is null.
AbsentSections ==
    {sec \in DOMAIN SectionFields :
        \A f \in SectionFields[sec] :
            Sections(input.statusData)[f] = EmptyStatus[f]}

\* Whether every section that is present is well formed.
WellFormed ==
    LET sd == Sections(input.statusData)
    IN  /\ sd.runtimeShort \in {"absent", "string"}
        /\ sd.recentUpdatedAt # BadText
        /\ sd.heartbeat \in {"absent", "array"}

\* The fields of the status this model keeps (uptime, memoryUsageMb and
\* cpuPercent are numbers the os module gives).
StatusFields ==
    {"version", "health", "activeChannels", "lastHeartbeat", "memoryFiles",
     "memoryChunks", "memoryBackend", "platform", "heartbeatEvery",
     "gatewayVersion", "gatewayReachable"}

KeySegments ==
    {"cron:nightly", "spawn:7", "telegram:1", "discord:2", "imessage:3",
     "slack:4", "main", "web:9"}

\* Keys agent:<agent>:<segment> and agent:<agent>:<segment>:<segment>.
SessionKeys ==
    {"agent:" \o a \o ":" \o s1 : a \in {"main", "ops"}, s1 \in KeySegments}
    \cup {"agent:" \o a \o ":" \o s1 \o ":" \o s2 :
             a \in {"main", "ops"}, s1 \in KeySegments, s2 \in KeySegments}

SessionInputs ==
    {[kind |-> "session",
      sess |-> [key |-> k, sessionId |-> "s1", updatedAt |-> Num(1),
                totalTokens |-> total, inputTokens |-> in, outputTokens |-> out]] :
        k \in SessionKeys,
        total \in {NoNum, Num(0), Num(10)},
        in \in {NoNum, Num(3)},
        out \in {NoNum, Num(4)}}

InitSession ==
    /\ now = 0
    /\ tasks = NoTasks
    /\ spawned = <<>>
    /\ cache = NoCache
    /\ cachedActivity = NoCache
    /\ cacheTimestamp = 0
    /\ req = NoRequest
    /\ resp = NoResponse
    /\ input \in SessionInputs
    /\ output = NoOutput

\* One pass of the loop of lines 45-96 over the record.
NormalizeSession ==
    /\ input.kind = "session"
    /\ ~output.done
    /\ output' = [done |-> TRUE, data |-> sessionEntries(<<input.sess>>)]
    /\ UNCHANGED <<now, cache, cachedActivity, cacheTimestamp, req, resp, input,
                   tasks, spawned>>

NextSession == NormalizeSession

SpecSession == InitSession /\ [][NextSession]_vars

\* The channel tokens a session key is matched against.
ChannelTokens == {"telegram", "discord", "imessage", "slack"}

\* C17: a session is classified by the first rule that matches its key:
\* "cron" gives cron/cron, "spawn" gives task/terminal, a channel token
\* (telegram, discord, imessage, slack) gives message on that channel, the
\* main session key gives message/telegram, anything else message/terminal.
C17_FirstMatchingRule ==
    (output.done /\ input.kind = "session")
        => LET key == input.sess.key
               e == output.data[1]
           IN  /\ Len(output.data) = 1
               /\ IF includes(key, "cron")
                  THEN e.type = "cron" /\ e.channel = "cron"
                  ELSE IF includes(key, "spawn")
                  THEN e.type = "task" /\ e.channel = "terminal"
                  ELSE IF \E token \in ChannelTokens : includes(key, token)
                  THEN /\ e.type = "message"
                       /\ e.channel \in ChannelTokens
                       /\ includes(key, e.channel)
                  ELSE IF key = "agent:main:main"
                  THEN e.type = "message" /\ e.channel = "telegram"
                  ELSE e.type = "message" /\ e.channel = "terminal"

\* C18: the token count of a session entry is totalTokens whenever the
\* record has it, 0 included; without it, inputTokens + outputTokens when
\* the record has those; without any of the three, absent.
C18_TokenCount ==
    (output.done /\ input.kind = "session")
        => LET sess == input.sess
               e == output.data[1]
           IN  /\ sess.totalTokens # NoNum => e.tokensUsed = sess.totalTokens
               /\ (sess.totalTokens = NoNum /\ sess.inputTokens # NoNum
                      /\ sess.outputTokens # NoNum)
                     => e.tokensUsed = Num(sess.inputTokens[2] + sess.outputTokens[2])
               /\ (sess.totalTokens = NoNum /\ sess.inputTokens = NoNum
                      /\ sess.outputTokens = NoNum)
                     => e.tokensUsed = NoNum

(***************************************************************************)
(* The channel health view as a function of the health snapshot.           *)
(***************************************************************************)
\* One channel of the snapshot, as the channels route reads it.
ChannelViews ==
    [ configured  : {"true", "false", "absent"},
      running     : {"true"},
      ok          : {"true", "absent"},
      probeError  : {NoStr, "timeout"},
      elapsedMs   : {Num(120)},
      lastProbeAt : {NoNum} ]

\* The snapshots that list the first n channel ids, for every n up to the
\* given one; the first channel has been probed at a time, at none, or at
\* something that is no time.
ChannelsInputs(most) ==
    {[kind |-> "channels", healthData |-> NullHealth]}
    \cup UNION {{[kind |-> "channels",
                  healthData |->
                      [isNull |-> FALSE,
                       channels |-> [i \in 1..n |->
                                        Merge([name |-> ChannelNames[i]],
                                              IF i = 1
                                              THEN [f[i] EXCEPT !.lastProbeAt = at]
                                              ELSE f[i])]]] :
                    f \in [1..n -> ChannelViews],
                    at \in {NoNum, Num(1), BadText}} : n \in 0..most}

InitChannels ==
    /\ now = 0
    /\ tasks = NoTasks
    /\ spawned = <<>>
    /\ cache = NoCache
    /\ cachedActivity = NoCache
    /\ cacheTimestamp = 0
    /\ req = NoRequest
    /\ resp = NoResponse
    /\ input \in ChannelsInputs(NumChannels)
    /\ output = NoOutput

\* buildChannels either raises or returns the view.
BuildChannels ==
    /\ input.kind = "channels"
    /\ ~output.done
    /\ output' = IF ~input.healthData.isNull /\ buildChannelsThrows(input.healthData)
                 THEN [done |-> TRUE, raised |-> TRUE]
                 ELSE [done |-> TRUE, raised |-> FALSE,
                       data |-> buildChannels(input.healthData)]
    /\ UNCHANGED <<now, cache, cachedActivity, cacheTimestamp, req, resp, input,
                   tasks, spawned>>

NextChannels == BuildChannels

SpecChannels == InitChannels /\ [][NextChannels]_vars

\* C19: in the channel health view a channel is unknown exactly when it is
\* not configured, and a configured channel is connected, disconnected or
\* error.
C19_UnknownIffNotConfigured ==
    (output.done /\ input.kind = "channels" /\ ~output.raised)
        => /\ Len(output.data) = Len(input.healthData.channels)
           /\ \A i \in 1..Len(output.data) :
                 LET isConfigured == input.healthData.channels[i].configured = "true"
                 IN  /\ output.data[i].status = "unknown" <=> ~isConfigured
                     /\ isConfigured
                           => output.data[i].status
                                  \in {"connected", "disconnected", "error"}

\* A view with a channel that is not configured although its probe answers,
\* shown unknown, next to a configured channel whose probe failed, shown
\* error.
C19_Witness ==
    /\ output.done
    /\ input.kind = "channels"
    /\ ~output.raised
    /\ Len(output.data) = 2
    /\ input.healthData.channels[1].configured = "false"
    /\ input.healthData.channels[1].ok = "true"
    /\ output.data[1].status = "unknown"
    /\ input.healthData.channels[2].configured = "true"
    /\ output.data[2].status = "error"

(***************************************************************************)
(* The configuration view of two status snapshots that differ in sensitive *)
(* leaves only.                                                            *)
(***************************************************************************)
\* The values of the sensitive leaves of a snapshot: the audit's authToken
\* and a digest among its findings, the provider of the memory, the
\* contextTokens of the session defaults and the token of the main agent's
\* heartbeat.
SecretSlots ==
    [ authToken      : {Str("tok-live-1"), Str("tok-live-2")},
      digest         : {Str("0123456789abcdef0123456789abcdef"),
                        Str("fedcba9876543210fedcba9876543210")},
      provider       : {Str("openai key sk-1"), Str("openai key sk-2")},
      contextTokens  : {Number("100000"), Number("200000")},
      heartbeatToken : {Str("hb-token-aaaa"), Str("hb-token-bbbb")} ]

\* The status snapshot with the given values at its sensitive leaves.
ConfigSnapshot(slots) ==
    Obj(<<
      Entry("gateway", Obj(<< Entry("mode", Str("local")),
                              Entry("reachable", Bool("true")),
                              Entry("self", Obj(<< Entry("host", Str("box1")),
                                                   Entry("version", Str("2026.2.1")) >>)) >>)),
      Entry("memory", Obj(<< Entry("backend", Str("sqlite")),
                             Entry("provider", slots.provider),
                             Entry("files", Number("12")) >>)),
      Entry("sessions", Obj(<< Entry("defaults",
                                     Obj(<< Entry("model", Str("sonnet")),
                                            Entry("contextTokens",
                                                  slots.contextTokens) >>)) >>)),
      Entry("agents", Obj(<< Entry("totalSessions", Number("3")),
                             Entry("agents",
                                   Arr(<< Obj(<< Entry("id", Str("main")) >>) >>)) >>)),
      Entry("heartbeat", Obj(<< Entry("agents",
                                      Arr(<< Obj(<< Entry("agentId", Str("main")),
                                                    Entry("every", Str("30m")),
                                                    Entry("token",
                                                          slots.heartbeatToken) >>) >>)) >>)),
      Entry("securityAudit", Obj(<< Entry("summary", Str("ok")),
                                    Entry("authToken", slots.authToken),
                                    Entry("findings",
                                          Arr(<< Str("port open"), slots.digest >>)) >>)),
      Entry("update", Obj(<< Entry("installKind", Str("npm")) >>)) >>)

InitConfig ==
    /\ now = 0
    /\ tasks = NoTasks
    /\ spawned = <<>>
    /\ cache = NoCache
    /\ cachedActivity = NoCache
    /\ cacheTimestamp = 0
    /\ req = NoRequest
    /\ resp = NoResponse
    /\ input \in {[kind |-> "config", statusData |-> ConfigSnapshot(a),
                   other |-> ConfigSnapshot(b)] : a \in SecretSlots, b \in SecretSlots}
                 \cup {[kind |-> "config", statusData |-> Null, other |-> Null]}
    /\ output = NoOutput

\* buildConfig on the snapshot and on the other one.
BuildConfig ==
    /\ input.kind = "config"
    /\ ~output.done
    /\ output' = [done |-> TRUE, data |-> buildConfig(input.statusData),
                  other |-> buildConfig(input.other)]
    /\ UNCHANGED <<now, cache, cachedActivity, cacheTimestamp, req, resp, input,
                   tasks, spawned>>

NextConfig == BuildConfig

SpecConfig == InitConfig /\ [][NextConfig]_vars

\* C20: two status snapshots that differ only in the values of leaves with a
\* sensitive key or sensitive content give the same configuration view.
C20_SensitiveLeavesDoNotShow ==
    (output.done /\ input.kind = "config") => output.data = output.other

(***************************************************************************)
(* The feed of one sessions snapshot whose records may lack fields.        *)
(***************************************************************************)
\* Session records, each field there or not.
PartialSessions ==
    [ key          : {NoStr, "agent:main:main", "agent:ops:discord:7"},
      sessionId    : {NoStr, "s1", "s2"},
      updatedAt    : {NoNum, Num(1), Num(2)},
      totalTokens  : {NoNum, Num(10)},
      inputTokens  : {NoNum},
      outputTokens : {NoNum} ]

\* Snapshots of up to two session records.
SnapshotInputs ==
    {[kind |-> "feed", sessions |-> ListOut(ss), jobs |-> NullOut, note |-> <<>>] :
        ss \in {<<>>} \cup {<<a>> : a \in PartialSessions}
                  \cup {<<a, b>> : a \in PartialSessions, b \in PartialSessions}}

InitSnapshot ==
    /\ now = MaxTime
    /\ tasks = NoTasks
    /\ spawned = <<>>
    /\ cache = NoCache
    /\ cachedActivity = NoCache
    /\ cacheTimestamp = 0
    /\ req = NoRequest
    /\ resp = NoResponse
    /\ input \in SnapshotInputs
    /\ output = NoOutput

\* The first request of the process: the feed is built from the snapshot.
SnapshotRequest ==
    /\ req.route = "none"
    /\ ActivityGET(input.sessions, input.jobs, input.note, NoParams)

NextSnapshot == SnapshotRequest

SpecSnapshot == InitSnapshot /\ [][NextSnapshot]_vars

\* Whether a session record has every field the feed reads.
Complete(sess) ==
    /\ sess.key # NoStr
    /\ sess.sessionId # NoStr
    /\ sess.updatedAt # NoNum
    /\ sess.totalTokens # NoNum

\* C24: a session record that lacks a field is handled by defaulting: the
\* request is answered without an error, and every record of the snapshot
\* that lacks nothing has its entry in the feed.
C24_MissingFieldsDefaulted ==
    (req.route = "activity" /\ input.kind = "feed")
        => /\ resp.status = 200
           /\ \A i \in 1..Len(listOf(input.sessions)) :
                 LET sess == listOf(input.sessions)[i]
                 IN  Complete(sess)
                        => \E k \in 1..Len(cachedActivity.entries) :
                              cachedActivity.entries[k].id = sess.sessionId

(***************************************************************************)
(* The feed of one day's memory note.                                      *)
(***************************************************************************)
\* The most lines a note of the model has.
MaxNoteLines == 6

NoteTexts == {"## Deploy", "### Rollback", "shipped the fix"}

NoteInputs ==
    {[kind |-> "feed", sessions |-> NullOut, jobs |-> NullOut, note |-> ls] :
        ls \in UNION {[1..n -> NoteTexts] : n \in 0..MaxNoteLines}}

InitNote ==
    /\ now = MaxTime
    /\ tasks = NoTasks
    /\ spawned = <<>>
    /\ cache = NoCache
    /\ cachedActivity = NoCache
    /\ cacheTimestamp = 0
    /\ req = NoRequest
    /\ resp = NoResponse
    /\ input \in NoteInputs
    /\ output = NoOutput

\* The first request of the process: the feed is built from the note.
NoteRequest ==
    /\ req.route = "none"
    /\ ActivityGET(input.sessions, input.jobs, input.note, NoParams)

NextNote == NoteRequest

SpecNote == InitNote /\ [][NextNote]_vars

\* The heading lines of the note and the memory entries of the feed.
Headings == SelectSeq(input.note, LAMBDA l : startsWith(l, "#"))
MemoryEntries == SelectSeq(cachedActivity.entries, LAMBDA e : e.type = "memory")

\* C25: every heading line of the day's note yields exactly one memory
\* entry, each with its own id: there are as many memory entries as headings.
C25_OneEntryPerHeading ==
    (req.route = "activity" /\ input.kind = "feed")
        => /\ Len(MemoryEntries) = Len(Headings)
           /\ \A i, j \in 1..Len(MemoryEntries) :
                 i # j => MemoryEntries[i].id # MemoryEntries[j].id

(***************************************************************************)
(* The system view as a function of the cron list and the sessions list.   *)
(***************************************************************************)
\* The largest count of consecutive errors of a job.
MaxErrors == 6

ErrorCounts == {NoNum} \cup {Num(n) : n \in 0..MaxErrors}

CronJob(id, count) ==
    [ id |-> id, name |-> "backup", enabled |-> "true",
      scheduleKind |-> "cron", scheduleExpr |-> "0 3 * * *",
      message |-> "nightly backup", lastStatus |-> "error",
      lastRunAtMs |-> Num(1), nextRunAtMs |-> NoNum,
      consecutiveErrors |-> count ]

HeartbeatChoices ==
    {<<>>, <<[agentId |-> "main", enabled |-> "true", every |-> "30m"]>>}

UsageSessions ==
    [ model        : {NoStr, "opus", "haiku"},
      inputTokens  : {NoNum, Num(3)},
      outputTokens : {NoNum, Num(4)},
      totalTokens  : {NoNum, Num(7), Num(10)} ]

\* Two jobs with any two counts, or up to two sessions.
SystemInputs ==
    {[kind |-> "system", heartbeat |-> h, sessions |-> ListOut(<<>>),
      jobs |-> ListOut(<<CronJob("j1", a), CronJob(id, b)>>)] :
        h \in HeartbeatChoices, id \in {"j2", "heartbeat-main"},
        a \in ErrorCounts, b \in ErrorCounts}
    \cup {[kind |-> "system", heartbeat |-> <<>>, sessions |-> ss, jobs |-> NullOut] :
             ss \in {NullOut} \cup {ListOut(<<x>>) : x \in UsageSessions}
                       \cup {ListOut(<<x, y>>) : x \in UsageSessions,
                                                 y \in UsageSessions}}

InitSystem ==
    /\ now = 0
    /\ tasks = NoTasks
    /\ spawned = <<>>
    /\ cache = NoCache
    /\ cachedActivity = NoCache
    /\ cacheTimestamp = 0
    /\ req = NoRequest
    /\ resp = NoResponse
    /\ input \in SystemInputs
    /\ output = NoOutput

\* buildSystemData on what the commands returned.
BuildSystem ==
    /\ input.kind = "system"
    /\ ~output.done
    /\ output' = [done |-> TRUE,
                  data |-> buildSystemData(input.heartbeat, input.jobs,
                                           input.sessions)]
    /\ UNCHANGED <<now, cache, cachedActivity, cacheTimestamp, req, resp, input,
                   tasks, spawned>>

NextSystem == BuildSystem

SpecSystem == InitSystem /\ [][NextSystem]_vars

\* C26: the successRate of a job summary does not rise with the count of
\* consecutive errors: of two jobs the one with the smaller count has at
\* least the rate of the other, and the rate is 100 for the count 0 and for
\* an absent count.
C26_SuccessRateMonotone ==
    (output.done /\ input.kind = "system")
        => LET jobs == listOf(input.jobs)
               out == output.data.cronJobs
           IN  /\ \A i \in 1..Len(jobs) :
                     jobs[i].consecutiveErrors \in {NoNum, Num(0)}
                         => out[i].successRate = 100
               /\ \A i, j \in 1..Len(jobs) :
                     (/\ jobs[i].consecutiveErrors # NoNum
                      /\ jobs[j].consecutiveErrors # NoNum
                      /\ jobs[i].consecutiveErrors[2] <= jobs[j].consecutiveErrors[2])
                         => out[i].successRate >= out[j].successRate

\* Two jobs, one with one error and one with MaxErrors, summarised with a
\* lower rate for the second, which is at the floor.
C26_Witness ==
    /\ output.done /\ input.kind = "system"
    /\ Len(listOf(input.jobs)) = 2
    /\ listOf(input.jobs)[1].consecutiveErrors = Num(1)
    /\ listOf(input.jobs)[2].consecutiveErrors = Num(MaxErrors)
    /\ output.data.cronJobs[1].successRate = 80
    /\ output.data.cronJobs[2].successRate = 0

\* The sum of a field over the rows of byModel.
RECURSIVE SumOf(_, _)
SumOf(rows, field) ==
    IF rows = <<>> THEN 0 ELSE Head(rows)[field] + SumOf(Tail(rows), field)

MaxPage == 6

\* String(page)
PageText(page) == At(Digits, page + 1)

PagesParams ==
    [type : {NoStr, "cron", "message"}, channel : {NoStr, "telegram"},
     search : {NoStr, "Ops"}, page : {NoStr}, pageSize : {NoStr, "1", "2", "3"}]

InitPages ==
    /\ now = MaxTime
    /\ tasks = NoTasks
    /\ spawned = <<>>
    /\ cache = NoCache
    /\ cachedActivity = NoCache
    /\ cacheTimestamp = 0
    /\ req \in {[route |-> "none", params |-> p] : p \in PagesParams}
    /\ resp = NoResponse
    /\ input \in QueryInputs
    /\ output = [done |-> FALSE, pages |-> <<>>]

\* The caller asks for the page after the ones it has read.
PageRequest ==
    /\ resp = NoResponse
    /\ ~output.done
    /\ ActivityGET(input.sessions, input.jobs, input.note,
                   [req.params EXCEPT !.page = PageText(Len(output.pages) + 1)])

\* The caller takes the response.
PageRead ==
    /\ resp # NoResponse
    /\ output' = [done |-> Len(output.pages) + 1 = MaxPage,
                  pages |-> Append(output.pages, resp)]
    /\ resp' = NoResponse
    /\ UNCHANGED <<now, cache, cachedActivity, cacheTimestamp, req, input,
                   tasks, spawned>>

NextPages == PageRequest \/ PageRead

SpecPages == InitPages /\ [][NextPages]_vars

\* The items of the first n pages read, in order.
RECURSIVE PagesConcat(_)
PagesConcat(n) ==
    IF n = 0 THEN <<>> ELSE PagesConcat(n - 1) \o output.pages[n].items

\* ceil(total / pageSize)
PageCount(total, pageSize) == (total + pageSize - 1) \div pageSize

\* C28: for a fixed cached feed, fixed filters and a page size of at least
\* 1, the pages 1 .. ceil(total / pageSize) in order make up the filtered
\* feed exactly, every later page is empty, and hasMore is true on a page
\* exactly when the next page has items.
C28_PagesPartitionFeed ==
    (Len(output.pages) >= 1 /\ output.pages[1].pageSize[2] >= 1)
        => LET pages == output.pages
               last == PageCount(pages[1].total, pages[1].pageSize[2])
           IN  /\ Len(pages) >= last => PagesConcat(last) = Passing
               /\ \A n \in 1..Len(pages) : n > last => pages[n].items = <<>>
               /\ \A n \in 1..(Len(pages) - 1) :
                     pages[n].hasMore <=> pages[n + 1].items # <<>>

\* Five entries read two at a time: three pages with items, the third with
\* one, and then empty pages.
C28_Witness ==
    /\ output.done
    /\ Len(Passing) = 5
    /\ output.pages[1].pageSize = Num(2)
    /\ Len(output.pages[3].items) = 1
    /\ ~output.pages[3].hasMore
    /\ output.pages[4].items = <<>>
    /\ PagesConcat(3) = Passing

(***************************************************************************)
(* The two caches under queries: requests to both routes arrive as time    *)
(* passes, the activity queries with filters and page parameters, and      *)
(* every command a request runs may answer or fail.                        *)
(***************************************************************************)
FrameParams ==
    {[NoParams EXCEPT !.search = "MAIN"],
     [NoParams EXCEPT !.type = "cron", !.pageSize = "1"],
     [NoParams EXCEPT !.type = "cron", !.page = "2", !.pageSize = "1"]}

\* The start, and the instants just before and at the expiry of a feed
\* cached at the start.
FrameInstants ==
    {MaxTime, MaxTime + ACTIVITY_CACHE_TTL - 1, MaxTime + ACTIVITY_CACHE_TTL}

InitFrame == Init

FrameActivityRequest ==
    \E sessionsOut \in SessionsOutcomes, cronOut \in CronOutcomes,
       params \in FrameParams :
        ActivityGET(sessionsOut, cronOut, <<"## Deploy">>, params)

FrameStatusRequest ==
    \E statusData \in StatusOutcomes : StatusGET(statusData, NullHealth)

FrameAdvance == AdvanceTo(FrameInstants)

NextFrame == FrameActivityRequest \/ FrameStatusRequest \/ FrameAdvance

SpecFrame == InitFrame /\ [][NextFrame]_vars

\* Whether the entry of a route is younger than the route's TTL.
FreshActivityEntry ==
    cachedActivity.present /\ now - cacheTimestamp < ACTIVITY_CACHE_TTL
FreshStatusEntry == cache.present /\ now - cache.ts < STATUS_CACHE_TTL

\* C29: a request served from a fresh entry leaves the entry, data and
\* timestamp, as it was, whatever filters and page parameters an activity
\* query has; a cache changes only in a refresh of its own route, which
\* replaces the whole value and stamps it with the time of the request.
C29_FreshHitLeavesCache ==
    [][ /\ (now' = now /\ req'.route = "activity" /\ FreshActivityEntry)
              => UNCHANGED <<cachedActivity, cacheTimestamp>>
        /\ (now' = now /\ req'.route = "status" /\ FreshStatusEntry)
              => UNCHANGED cache
        /\ (cachedActivity' # cachedActivity \/ cacheTimestamp' # cacheTimestamp)
              => /\ req'.route = "activity"
                 /\ ~FreshActivityEntry
                 /\ cacheTimestamp' = now
                 /\ cachedActivity'.entries
                        = finalize(mergeSources(input'.sessions, input'.jobs,
                                                input'.note, now))
        /\ cache' # cache
              => /\ req'.route = "status"
                 /\ ~FreshStatusEntry
                 /\ cache'.ts = now ]_vars

\* An activity query with a type filter and a page size of one, answered
\* from a feed of several entries cached one millisecond short of the TTL
\* earlier, the feed being as it was.
C29_Witness ==
    /\ req.route = "activity"
    /\ req.prior.present
    /\ req.at - req.prior.ts = ACTIVITY_CACHE_TTL - 1
    /\ req.params.type = "cron"
    /\ req.params.pageSize = "1"
    /\ Len(resp.items) = 1
    /\ Len(cachedActivity.entries) > 2
    /\ RouteCache = req.prior

(***************************************************************************)
(* The process as Node runs it: one thread, on which a handler runs from   *)
(* its start to its first await without giving way.  execSync (status      *)
(* route.ts line 11, activity route.ts line 13, page.tsx line 32) returns  *)
(* when the command has ended, so the thread is held while a command runs  *)
(* and the clock moves on by the time the command took.                    *)
(***************************************************************************)
\* The most requests the process accepts.
MaxRequests == 3

\* api/status route.ts line 11 and page.tsx line 32: the timeout of runCLI.
RUN_CLI_TIMEOUT == 8000
\* api/activity route.ts line 13: the timeout of execJSON.
EXEC_JSON_TIMEOUT == 10000

StatusCommand == "openclaw status --json"
HealthCommand == "openclaw health --json"
SessionsCommand == "openclaw sessions list --json --limit 50"
CronCommand == "openclaw cron list --json"

\* The commands a handler runs on a refresh, in the order of its code: the
\* status route (lines 112-113), getSessionActivity (lines 30, 103) and
\* HomePage (page.tsx lines 78, 140, 182).
Commands(route) ==
    IF route = "status" THEN <<StatusCommand, HealthCommand>>
    ELSE IF route = "activity" THEN <<SessionsCommand, CronCommand>>
    ELSE <<StatusCommand, SessionsCommand, CronCommand>>

\* How long a command may take: an instant, or up to the timeout of the
\* bridge that runs it.
Durations(route) ==
    {1, IF route = "activity" THEN EXEC_JSON_TIMEOUT ELSE RUN_CLI_TIMEOUT}

\* What a command may return.
Replies(cmd) ==
    IF cmd = StatusCommand
    THEN {NullStatus, [EmptyStatus EXCEPT !.reachable = "true"]}
    ELSE IF cmd = HealthCommand THEN {NullHealth}
    ELSE IF cmd = SessionsCommand
    THEN {ListOut(<<[key |-> "agent:main:main", sessionId |-> "s1",
                     updatedAt |-> Num(1), totalTokens |-> Num(10),
                     inputTokens |-> NoNum, outputTokens |-> NoNum]>>)}
    ELSE {NullOut}

\* A request that was accepted and whose handler has not started.  `step` is
\* the number of the command the handler is running (0 before it starts and
\* after it ends), `replies` what its commands returned, `at` its Date.now().
Queued(route) ==
    [route |-> route, state |-> "queued", step |-> 0, at |-> 0, replies |-> <<>>]

\* Whether no handler holds the thread.
ThreadFree == \A i \in 1..Len(tasks) : tasks[i].state # "running"

\* Whether request i runs a command.
CommandPending(i) == tasks[i].state = "running"

\* The start and the end of a command, as `spawned` records them.
Started(i, cmd) == [event |-> "start", cmd |-> cmd, by |-> i, at |-> now]
Ended(i, cmd, t) == [event |-> "end", cmd |-> cmd, by |-> i, at |-> t]

\* A request arrives: the server accepts it whatever the thread does.
Arrive ==
    /\ Len(tasks) < MaxRequests
    /\ \E route \in {"status", "activity", "home"} :
          tasks' = Append(tasks, Queued(route))
    /\ UNCHANGED <<now, cache, cachedActivity, cacheTimestamp, req, resp, input,
                   output, spawned>>

\* The handler of request i starts: it reads the clock and, on a route with
\* a cache, answers from a fresh entry; otherwise it runs its first command.
\* HomePage has no cache.
Begin(i) ==
    LET route == tasks[i].route
        hit == \/ route = "status" /\ statusCacheFresh
               \/ route = "activity" /\ activityCacheFresh
    IN  /\ ThreadFree
        /\ tasks[i].state = "queued"
        /\ IF hit
           THEN /\ tasks' = [tasks EXCEPT ![i].state = "answered", ![i].at = now]
                /\ req' = [route |-> route, at |-> now, hit |-> TRUE, by |-> i]
                /\ resp' = IF route = "status"
                           THEN [status |-> 200, data |-> cache.data,
                                 cached |-> TRUE, stale |-> FALSE]
                           ELSE query(cachedActivity.entries, NoParams)
                /\ UNCHANGED spawned
           ELSE /\ tasks' = [tasks EXCEPT ![i].state = "running", ![i].step = 1,
                                          ![i].at = now]
                /\ spawned' = Append(spawned, Started(i, Commands(route)[1]))
                /\ UNCHANGED <<req, resp>>
        /\ UNCHANGED <<now, cache, cachedActivity, cacheTimestamp, input, output>>

\* The rest of the handler of request i once its last command has returned,
\* at time t: the status route builds the status and stores it under the
\* time the handler started (lines 115-121, 122-128), getSessionActivity
\* stores the feed under the time it started (lines 152-165), HomePage
\* renders.
Finish(i, replies, t) ==
    LET route == tasks[i].route
        request == [route |-> route, at |-> tasks[i].at, hit |-> FALSE, by |-> i]
    IN  /\ req' = request
        /\ IF route = "status"
           THEN IF buildStatusThrows(replies[1])
                THEN /\ resp' = IF cache.present
                                THEN [status |-> 200, data |-> cache.data,
                                      cached |-> TRUE, stale |-> TRUE]
                                ELSE [status |-> 500,
                                      error |-> "Failed to fetch status"]
                     /\ UNCHANGED <<cache, cachedActivity, cacheTimestamp>>
                ELSE LET data == buildStatus(replies[1], replies[2], t)
                     IN  /\ cache' = [present |-> TRUE, data |-> data,
                                      ts |-> tasks[i].at]
                         /\ resp' = [status |-> 200, data |-> data,
                                     cached |-> FALSE, stale |-> FALSE]
                         /\ UNCHANGED <<cachedActivity, cacheTimestamp>>
           ELSE IF route = "activity"
           THEN LET feed == finalize(mergeSources(replies[1], replies[2], <<>>, t))
                IN  /\ cachedActivity' = [present |-> TRUE, entries |-> feed]
                    /\ cacheTimestamp' = tasks[i].at
                    /\ resp' = query(feed, NoParams)
                    /\ UNCHANGED cache
           ELSE /\ resp' = [status |-> 200]
                /\ UNCHANGED <<cache, cachedActivity, cacheTimestamp>>

\* The command request i runs returns after d milliseconds: the handler runs
\* its next command, or, after its last one, the rest of its code.
Return(i) ==
    /\ tasks[i].state = "running"
    /\ LET route == tasks[i].route
           cmd == Commands(route)[tasks[i].step]
           last == tasks[i].step = Len(Commands(route))
       IN  \E d \in Durations(route), reply \in Replies(cmd) :
              LET t == now + d
                  replies == Append(tasks[i].replies, reply)
              IN  /\ now' = t
                  /\ IF last
                     THEN /\ tasks' = [tasks EXCEPT ![i].state = "answered",
                                                    ![i].step = 0,
                                                    ![i].replies = <<>>]
                          /\ spawned' = Append(spawned, Ended(i, cmd, t))
                          /\ Finish(i, replies, t)
                     ELSE /\ tasks' = [tasks EXCEPT ![i].step = @ + 1,
                                                    ![i].replies = replies]
                          /\ spawned' = spawned
                                 \o << Ended(i, cmd, t),
                                       [event |-> "start",
                                        cmd |-> Commands(route)[tasks[i].step + 1],
                                        by |-> i, at |-> t] >>
                          /\ UNCHANGED <<cache, cachedActivity, cacheTimestamp,
                                         req, resp>>
    /\ UNCHANGED <<input, output>>

InitLoop == Init

NextLoop == Arrive \/ (\E i \in 1..Len(tasks) : Begin(i) \/ Return(i))

SpecLoop == InitLoop /\ [][NextLoop]_vars

\* The TTL of the cache that stands before a command: the status route's
\* for status and health, the activity route's for the session and cron
\* lists.
WindowOf(cmd) ==
    IF cmd \in {StatusCommand, HealthCommand} THEN STATUS_CACHE_TTL
    ELSE ACTIVITY_CACHE_TTL

\* C21: a command is run only on a miss of the one cache entry kept for it,
\* whatever route or page asks: two starts of the same command are at least
\* the TTL of its cache apart.
C21_OneSpawnPerWindow ==
    \A a, b \in 1..Len(spawned) :
        (/\ a < b
         /\ spawned[a].event = "start" /\ spawned[b].event = "start"
         /\ spawned[a].cmd = spawned[b].cmd)
            => spawned[b].at - spawned[a].at >= WindowOf(spawned[a].cmd)

\* C22: in a status request that misses the cache the health command starts
\* before the status command has ended, and the request is answered only
\* after both have ended.
C22_StatusAndHealthOverlap ==
    \A i \in 1..Len(tasks) :
        tasks[i].route = "status"
            => /\ \A h \in 1..Len(spawned) :
                     (/\ spawned[h].event = "start"
                      /\ spawned[h].cmd = HealthCommand
                      /\ spawned[h].by = i)
                        => ~\E s \in 1..(h - 1) :
                               /\ spawned[s].event = "end"
                               /\ spawned[s].cmd = StatusCommand
                               /\ spawned[s].by = i
               /\ (tasks[i].state = "answered" /\ req.by = i /\ ~req.hit)
                     => \A cmd \in {StatusCommand, HealthCommand} :
                           \E e \in 1..Len(spawned) :
                              /\ spawned[e].event = "end"
                              /\ spawned[e].cmd = cmd
                              /\ spawned[e].by = i

\* C23: a command that is running holds up only the request that runs it:
\* while it runs, the handler of any other request that waits can start.
C23_PendingCommandBlocksOnlyItsRequest ==
    \A i, j \in 1..Len(tasks) :
        (i # j /\ CommandPending(i) /\ tasks[j].state = "queued")
            => ENABLED Begin(j)

\* C27: an entry is fresh when it is stored: in the state a refresh leaves,
\* the entry it stored is younger than the TTL of its route, however long
\* the commands of the refresh took.
C27_StoredEntryIsFresh ==
    [][ \A i \in 1..Len(tasks) :
           (tasks[i].state = "running" /\ tasks'[i].state = "answered")
               => /\ (tasks[i].route = "activity")
                        => /\ cachedActivity'.present
                           /\ now' - cacheTimestamp' < ACTIVITY_CACHE_TTL
                  /\ (tasks[i].route = "status" /\ cache' # cache)
                        => now' - cache'.ts < STATUS_CACHE_TTL ]_vars

\* The channels of the derivation's health snapshot that are configured, and
\* those of them whose probe answered ok.
ConfiguredChannels ==
    {i \in DOMAIN input.healthData.channels :
        Truthy(input.healthData.channels[i].configured)}
HealthyChannels ==
    {i \in ConfiguredChannels : input.healthData.channels[i].ok = "true"}

\* C4: in the probe-based derivation, a gateway that is not reachable gives
\* health unhealthy, whatever the channel probes say.
C4_UnreachableIsUnhealthy ==
    (output.done /\ input.kind = "probe" /\ ~output.raised
        /\ ~output.data.gatewayReachable)
        => output.data.health = "unhealthy"

\* C5: in the probe-based derivation with the gateway reachable, health is
\* healthy when every configured channel probes healthy and degraded when
\* some but not all of the configured channels do; channels that are listed
\* but not configured do not count.
C5_ConfiguredChannelsDecide ==
    (output.done /\ input.kind = "probe" /\ ~output.raised
        /\ output.data.gatewayReachable)
        => /\ (ConfiguredChannels # {} /\ HealthyChannels = ConfiguredChannels)
                  => output.data.health = "healthy"
           /\ (HealthyChannels # {} /\ HealthyChannels # ConfiguredChannels)
                  => output.data.health = "degraded"

\* C6: in the channelSummary-based derivation, a reachable gateway with no
\* configured channel gives health degraded, and an unreachable gateway
\* never gives health healthy.
C6_SummaryHealth ==
    (output.done /\ input.kind = "summary")
        => /\ (Truthy(Sections(input.statusData).reachable)
                 /\ \A i \in DOMAIN Sections(input.statusData).channelSummary :
                       ~ConfiguredLine(trim(Sections(input.statusData).channelSummary[i])))
                  => output.data.health = "degraded"
           /\ ~Truthy(Sections(input.statusData).reachable)
                  => output.data.health # "healthy"

\* A reachable gateway whose summary has lines, none of them a configured
\* channel, derived as degraded.
C6_Witness ==
    /\ output.done
    /\ input.kind = "summary"
    /\ Truthy(Sections(input.statusData).reachable)
    /\ Len(input.statusData.channelSummary) > 0
    /\ output.data.activeChannels = <<>>
    /\ output.data.health = "degraded"

====
